---- MODULE Spec2Model ----
(***************************************************************************)
(* A model of the deep-research agent (src/src/deep_research_flow.py):     *)
(* the LangGraph state machine                                             *)
(*   initialize -> clarifier -> researcher -> query_generator ->           *)
(*   web_searcher -> summarizer -> evaluator -> (researcher | report)      *)
(* together with the text helpers it relies on (src/src/utils.py).         *)
(*                                                                         *)
(* A Python str is modelled as a sequence of atomic tokens: a token is     *)
(* either a single character that the code inspects ("{", "[", the quote,  *)
(* a blank, a newline, ...) or a run of ordinary characters that the code  *)
(* never looks into (a word).  The markdown code fence is one token.       *)
(***************************************************************************)
EXTENDS Integers, Sequences, FiniteSets, TLC

(***************************************************************************)
(* Bounds of the model.                                                    *)
(***************************************************************************)
\* Largest configured value of MAX_ITERATIONS that is explored.
MaxIterationsBound == 2
\* Longest conversation history handed to the graph.
MaxTurns == 2
\* Most sources handed to the summarizer when every outcome of every task
\* is explored.
MaxSources == 5
\* Most sources handed to the summarizer when the pool is explored.
MaxPoolSources == 6
MaxQueries == 2
MaxResults == 2

(***************************************************************************)
(* Python str helpers (str.strip, str.find, str.rfind, str.split,          *)
(* str.join, slicing).                                                     *)
(***************************************************************************)
IsSpace(c) == c \in {" ", "\n"}

RECURSIVE LStrip(_)
LStrip(s) == IF s # <<>> /\ IsSpace(Head(s)) THEN LStrip(Tail(s)) ELSE s

RECURSIVE RStrip(_)
RStrip(s) ==
    IF s # <<>> /\ IsSpace(s[Len(s)]) THEN RStrip(SubSeq(s, 1, Len(s) - 1)) ELSE s

\* str.strip()
Strip(s) == RStrip(LStrip(s))

\* s.startswith(c) for a one-token prefix c
StartsWith(s, c) == s # <<>> /\ Head(s) = c

\* s.find(c): 0-based index of the first c, -1 when there is none
Find(s, c) ==
    IF \E i \in 1..Len(s) : s[i] = c
    THEN (CHOOSE i \in 1..Len(s) : s[i] = c /\ \A j \in 1..(i - 1) : s[j] # c) - 1
    ELSE -1

\* s.rfind(c): 0-based index of the last c, -1 when there is none
RFind(s, c) ==
    IF \E i \in 1..Len(s) : s[i] = c
    THEN (CHOOSE i \in 1..Len(s) : s[i] = c /\ \A j \in (i + 1)..Len(s) : s[j] # c) - 1
    ELSE -1

\* s[a:b] for 0 <= a, 0 <= b
Slice(s, a, b) == SubSeq(s, a + 1, IF b < Len(s) THEN b ELSE Len(s))

\* s[:n]
Prefix(s, n) == Slice(s, 0, n)

\* s.split("\n"): always at least one line
RECURSIVE SplitLines(_)
SplitLines(s) ==
    LET i == Find(s, "\n") IN
    IF i = -1 THEN <<s>>
    ELSE <<SubSeq(s, 1, i)>> \o SplitLines(SubSeq(s, i + 2, Len(s)))

\* sep.join(parts) for a str sep and a list of str
RECURSIVE Join(_, _)
Join(sep, parts) ==
    IF parts = <<>> THEN <<>>
    ELSE IF Len(parts) = 1 THEN parts[1]
    ELSE parts[1] \o sep \o Join(sep, Tail(parts))

\* The concatenation of a list of str
Concat(parts) == Join(<<>>, parts)

(***************************************************************************)
(* clean_json_response (src/src/utils.py)                                  *)
(***************************************************************************)
\* The markdown code fence (three backquotes), one token.
Fence == "fence"

\* A variant that leaves the fences in place
StripFenceKept(cleaned) == cleaned

\* The "Remove markdown code blocks" part: lines 142-150.
StripFence(cleaned) ==
    IF StartsWith(cleaned, Fence)
    THEN LET lines  == SplitLines(cleaned)
             \* lines[0] starts with the fence because cleaned does
             lines1 == IF StartsWith(lines[1], Fence) THEN Tail(lines) ELSE lines
             lines2 == IF lines1 # <<>> /\ Strip(lines1[Len(lines1)]) = <<Fence>>
                       THEN SubSeq(lines1, 1, Len(lines1) - 1)
                       ELSE lines1
         IN  Join(<<"\n">>, lines2)
    ELSE cleaned

\* The "extract just the JSON part" part: lines 153-178.
ExtractJsonPart(stripped) ==
    LET cleaned       == Strip(stripped)
        start_brace   == Find(cleaned, "{")
        start_bracket == Find(cleaned, "[")
    IN  IF start_brace = -1 /\ start_bracket = -1
        THEN cleaned
        ELSE LET start    == IF start_brace = -1 THEN start_bracket
                             ELSE IF start_bracket = -1 THEN start_brace
                             ELSE IF start_brace < start_bracket THEN start_brace
                             ELSE start_bracket
                 end_char == IF start_brace = -1 THEN "]"
                             ELSE IF start_bracket = -1 THEN "}"
                             ELSE IF start = start_brace THEN "}" ELSE "]"
                 end      == RFind(cleaned, end_char)
             IN  IF start # -1 /\ end # -1 /\ end > start
                 THEN Strip(Slice(cleaned, start, end + 1))
                 ELSE Strip(cleaned)

clean_json_response(content) == ExtractJsonPart(StripFence(Strip(content)))

(***************************************************************************)
(* Python values.  Every value carries its type in `kind`:                 *)
(*   str  (v: the tokens), list (v: the items), dict (v: the items in      *)
(*   insertion order, each [k: key tokens, val: value]), bool, none.       *)
(***************************************************************************)
PyStr(s)   == [kind |-> "str",  v |-> s]
PyList(xs) == [kind |-> "list", v |-> xs]
PyDict(ms) == [kind |-> "dict", v |-> ms]
PyBool(b)  == [kind |-> "bool", v |-> b]
PyNone     == [kind |-> "none", v |-> <<>>]

IsStr(x)  == x.kind = "str"
IsList(x) == x.kind = "list"
IsDict(x) == x.kind = "dict"

\* bool(x)
Truthy(x) ==
    CASE x.kind = "bool" -> x.v
      [] x.kind = "none" -> FALSE
      [] OTHER           -> x.v # <<>>

\* len(x) is defined (otherwise TypeError)
HasLen(x) == x.kind \in {"str", "list", "dict"}
PyLen(x)  == Len(x.v)

\* x[:n] is defined (otherwise TypeError)
Sliceable(x) == x.kind \in {"str", "list"}

\* `for q in x` is defined (otherwise TypeError)
Iterable(x) == x.kind \in {"str", "list", "dict"}

\* The items `for q in x` visits: the items of a list, the keys of a dict,
\* the characters of a str.
Items(x) ==
    CASE x.kind = "list" -> x.v
      [] x.kind = "dict" -> [i \in 1..Len(x.v) |-> PyStr(x.v[i].k)]
      [] x.kind = "str"  -> [i \in 1..Len(x.v) |-> PyStr(<<x.v[i]>>)]
      [] OTHER           -> <<>>

\* d.get(key, default) for a dict d
DictGet(d, key, default) ==
    IF \E i \in 1..Len(d.v) : d.v[i].k = key
    THEN d.v[CHOOSE i \in 1..Len(d.v) : d.v[i].k = key].val
    ELSE default

\* d[key] = val for a dict given by its items: a repeated key keeps its place
DictPut(ms, key, val) ==
    IF \E i \in 1..Len(ms) : ms[i].k = key
    THEN [i \in 1..Len(ms) |-> IF ms[i].k = key THEN [k |-> key, val |-> val] ELSE ms[i]]
    ELSE Append(ms, [k |-> key, val |-> val])

\* repr(x) and str(x); the quotes of a str's repr are one token each
RECURSIVE Repr(_)
Repr(x) ==
    CASE x.kind = "str"  -> <<"'">> \o x.v \o <<"'">>
      [] x.kind = "bool" -> IF x.v THEN <<"True">> ELSE <<"False">>
      [] x.kind = "none" -> <<"None">>
      [] x.kind = "list" ->
            <<"[">> \o Join(<<",", " ">>, [i \in 1..Len(x.v) |-> Repr(x.v[i])]) \o <<"]">>
      [] x.kind = "dict" ->
            <<"{">> \o Join(<<",", " ">>,
                           [i \in 1..Len(x.v) |->
                               <<"'">> \o x.v[i].k \o <<"'", ":", " ">> \o Repr(x.v[i].val)])
                    \o <<"}">>

ToStr(x) == IF x.kind = "str" THEN x.v ELSE Repr(x)

(***************************************************************************)
(* json.loads on a token sequence.  The grammar is JSON's, over the        *)
(* tokens { } [ ] : , the quote, blank, newline, true, false, null; every  *)
(* other token is an ordinary character run, legal only inside a string.   *)
(***************************************************************************)
Quote == "\""

RECURSIVE SkipWs(_, _)
SkipWs(s, i) == IF i <= Len(s) /\ IsSpace(s[i]) THEN SkipWs(s, i + 1) ELSE i

ParseFail == [ok |-> FALSE, val |-> PyNone, next |-> 0]
ParseOk(val, next) == [ok |-> TRUE, val |-> val, next |-> next]

\* A string literal whose opening quote is s[i]; a raw newline inside it is
\* an invalid control character.
ScanString(s, i) ==
    LET rest  == SubSeq(s, i + 1, Len(s))
        close == Find(rest, Quote)
    IN  IF close = -1 \/ (\E j \in 1..close : rest[j] = "\n")
        THEN ParseFail
        ELSE ParseOk(PyStr(SubSeq(rest, 1, close)), i + close + 2)

RECURSIVE ParseValue(_, _)
RECURSIVE ParseElements(_, _, _)
RECURSIVE ParseMembers(_, _, _)

ParseValue(s, i0) ==
    LET i == SkipWs(s, i0) IN
    IF i > Len(s) THEN ParseFail
    ELSE CASE s[i] = "{" ->
                LET j == SkipWs(s, i + 1) IN
                IF j <= Len(s) /\ s[j] = "}" THEN ParseOk(PyDict(<<>>), j + 1)
                ELSE ParseMembers(s, j, <<>>)
           [] s[i] = "[" ->
                LET j == SkipWs(s, i + 1) IN
                IF j <= Len(s) /\ s[j] = "]" THEN ParseOk(PyList(<<>>), j + 1)
                ELSE ParseElements(s, j, <<>>)
           [] s[i] = Quote   -> ScanString(s, i)
           [] s[i] = "true"  -> ParseOk(PyBool(TRUE), i + 1)
           [] s[i] = "false" -> ParseOk(PyBool(FALSE), i + 1)
           [] s[i] = "null"  -> ParseOk(PyNone, i + 1)
           [] OTHER          -> ParseFail

\* The items of an array from position i on, acc the items read so far.
ParseElements(s, i, acc) ==
    LET r == ParseValue(s, i) IN
    IF ~r.ok THEN ParseFail
    ELSE LET j == SkipWs(s, r.next) IN
         IF j > Len(s) THEN ParseFail
         ELSE IF s[j] = "," THEN ParseElements(s, j + 1, Append(acc, r.val))
         ELSE IF s[j] = "]" THEN ParseOk(PyList(Append(acc, r.val)), j + 1)
         ELSE ParseFail

\* The members of an object from position i on, acc the members read so far.
ParseMembers(s, i, acc) ==
    LET k == SkipWs(s, i) IN
    IF k > Len(s) \/ s[k] # Quote THEN ParseFail
    ELSE LET key == ScanString(s, k) IN
         IF ~key.ok THEN ParseFail
         ELSE LET c == SkipWs(s, key.next) IN
              IF c > Len(s) \/ s[c] # ":" THEN ParseFail
              ELSE LET r == ParseValue(s, c + 1) IN
                   IF ~r.ok THEN ParseFail
                   ELSE LET j == SkipWs(s, r.next) IN
                        IF j > Len(s) THEN ParseFail
                        ELSE IF s[j] = ","
                             THEN ParseMembers(s, j + 1, DictPut(acc, key.val.v, r.val))
                        ELSE IF s[j] = "}"
                             THEN ParseOk(PyDict(DictPut(acc, key.val.v, r.val)), j + 1)
                        ELSE ParseFail

\* json.loads(s): [ok |-> FALSE] stands for json.JSONDecodeError
json_loads(s) ==
    LET r == ParseValue(s, 1) IN
    IF r.ok /\ SkipWs(s, r.next) > Len(s)
    THEN [ok |-> TRUE, val |-> r.val]
    ELSE [ok |-> FALSE, val |-> PyNone]

\* re.search(r'\{.*\}', s, re.DOTALL): the text from the first "{" to the
\* last "}" after it; found = FALSE when there is no such pair.
regex_braces(s) ==
    LET a == Find(s, "{")
        b == RFind(s, "}")
    IN  IF a # -1 /\ b > a
        THEN [found |-> TRUE, group |-> Slice(s, a, b + 1)]
        ELSE [found |-> FALSE, group |-> <<>>]

(***************************************************************************)
(* Messages and the research brief.                                        *)
(***************************************************************************)
HumanMessage(content) == [type |-> "human", content |-> content]
AIMessage(content)    == [type |-> "ai", content |-> content]

\* get_buffer_string(messages): one "Human: ..." or "AI: ..." line per turn
get_buffer_string(msgs) ==
    Join(<<"\n">>,
         [i \in 1..Len(msgs) |->
             <<(IF msgs[i].type = "ai" THEN "AI" ELSE "Human"), ":", " ">>
                 \o msgs[i].content])

\* "\n".join(f"{i+1}. {q}" for i, q in enumerate(items))
NumberedLines(items) ==
    Join(<<"\n">>,
         [i \in 1..Len(items) |-> <<ToString(i), ".", " ">> \o ToStr(items[i])])

(***************************************************************************)
(* What the collaborators can answer.  A completion either raises or       *)
(* returns a text; the texts are drawn from the samples below.             *)
(***************************************************************************)
\* The JSON string literal of one word
Lit(w) == <<Quote, w, Quote>>

Raised == [raised |-> TRUE, content |-> <<>>]
Completion(text) == [raised |-> FALSE, content |-> text]
Completions(texts) == {Raised} \cup {Completion(t) : t \in texts}

\* A text in a fenced block, and a text between two pieces of prose
Fenced(t)  == <<Fence, "json", "\n">> \o t \o <<"\n", Fence>>
InProse(t) == <<"Sure", ":", " ">> \o t \o <<" ", "Done", ".">>
Variants(t) == {t, Fenced(t), InProse(t)}

\* Clarification decisions
ClarifyAsk ==
    <<"{">> \o Lit("need_clarification") \o <<":", " ", "true", ",", " ">>
        \o Lit("question") \o <<":", " ">> \o Lit("Which region?") \o <<"}">>
ClarifyAskBare ==
    <<"{">> \o Lit("need_clarification") \o <<":", " ", "true", "}">>
ClarifyGo ==
    <<"{">> \o Lit("need_clarification") \o <<":", " ", "false", ",", " ">>
        \o Lit("question") \o <<":", " ", Quote, Quote, "}">>
ClarifyNoJson     == <<"I", " ", "am", " ", "not", " ", "sure">>
ClarifyBadBraces  == <<"{", "need_clarification", "}">>
ClarifyOtherShape == <<"[">> \o Lit("Which region?") \o <<"]">>
ClarifyNoField    ==
    <<"{">> \o Lit("question") \o <<":", " ">> \o Lit("Which region?") \o <<"}">>
ClarifyTexts ==
    Variants(ClarifyAsk) \cup Variants(ClarifyGo)
        \cup {ClarifyAskBare, ClarifyNoJson, ClarifyBadBraces, ClarifyOtherShape, ClarifyNoField}

\* Planning completions
PlanGood ==
    <<"{">> \o Lit("focus") \o <<":", " ">> \o Lit("Focus") \o <<",", " ">>
        \o Lit("questions") \o <<":", " ", "[">> \o Lit("Question one") \o <<"]", "}">>
PlanItemDict ==
    <<"{">> \o Lit("focus") \o <<":", " ">> \o Lit("Focus") \o <<",", " ">>
        \o Lit("questions") \o <<":", " ", "[", "{">> \o Lit("text")
        \o <<":", " ">> \o Lit("Question one") \o <<"}", "]", "}">>
PlanItemNull ==
    <<"{">> \o Lit("focus") \o <<":", " ">> \o Lit("Focus") \o <<",", " ">>
        \o Lit("questions") \o <<":", " ", "[", "{">> \o Lit("question")
        \o <<":", " ", "null", "}", "]", "}">>
PlanNoJson        == <<"I", " ", "cannot", " ", "plan">>
PlanBadBraces     == <<"{", "focus", ":", " ", "wars", "}">>
PlanOtherShape    == <<"[">> \o Lit("Question one") \o <<"]">>
PlanFocusBool     == <<"{">> \o Lit("focus") \o <<":", " ", "true", "}">>
PlanQuestionsNull == <<"{">> \o Lit("questions") \o <<":", " ", "null", "}">>
PlanTexts ==
    Variants(PlanGood)
        \cup {PlanItemDict, PlanItemNull, PlanNoJson, PlanBadBraces, PlanOtherShape,
              PlanFocusBool, PlanQuestionsNull}

\* Query-generation completions
QueriesOne == <<"[">> \o Lit("query A") \o <<"]">>
QueriesNone        == <<"[", "]">>
QueriesNoJson      == <<"No", " ", "queries">>
QueriesBadBrackets == <<"[", "query A", "]">>
QueriesOtherShape  == <<"true">>
QueryTexts ==
    Variants(QueriesOne)
        \cup {QueriesNone, QueriesNoJson, QueriesBadBrackets, QueriesOtherShape}

\* Evaluation completions
EvalYes ==
    <<"{">> \o Lit("satisfied") \o <<":", " ", "true", ",", " ">>
        \o Lit("unanswered") \o <<":", " ", "[", "]", ",", " ">>
        \o Lit("next_directions") \o <<":", " ", "[", "]", "}">>
EvalNo ==
    <<"{">> \o Lit("satisfied") \o <<":", " ", "false", ",", " ">>
        \o Lit("unanswered") \o <<":", " ", "[">> \o Lit("Question one") \o <<"]", ",", " ">>
        \o Lit("next_directions") \o <<":", " ", "[">> \o Lit("Dig deeper") \o <<"]", "}">>
EvalNullList ==
    <<"{">> \o Lit("satisfied") \o <<":", " ", "false", ",", " ">>
        \o Lit("unanswered") \o <<":", " ", "null", "}">>
EvalNoJson     == <<"Looks", " ", "fine">>
EvalBadBraces  == <<"{", "satisfied", "}">>
EvalOtherShape == <<"[", "true", "]">>
EvalTexts ==
    Variants(EvalYes) \cup Variants(EvalNo)
        \cup {EvalNullList, EvalNoJson, EvalBadBraces, EvalOtherShape}

\* Single-source digests, syntheses and reports are free text
DigestText    == <<"digest">>
SynthesisText == <<"synthesis">>
ReportTexts   == { <<"#", " ", "Report">> }

(***************************************************************************)
(* The state of a session: the keys of ResearchState (src/src/state.py),   *)
(* the configuration, and where the graph is.                              *)
(***************************************************************************)
VARIABLES
    pc,               \* the node that runs next; "__end__" and "raised" are final
    error,            \* the node and the exception that ended the session, if any
    MAX_ITERATIONS,   \* Config.MAX_ITERATIONS
    MAX_SEARCH_RESULTS, \* Config.MAX_SEARCH_RESULTS: the most results of one search
    messages,         \* ResearchState.messages
    researcher,       \* ResearchState.researcher
    research_plan,    \* ResearchState.research_plan
    search_results,   \* ResearchState.search_results
    current_summary,  \* ResearchState.current_summary
    final_report,     \* ResearchState.final_report
    tasks,            \* summarizer: the futures of the MAP phase, by source
    source_summaries, \* summarizer: the summaries collected so far
    evaluations,      \* how many times the evaluator has run in this session
    calls,            \* what the last node asked of its collaborators
    raw_text,         \* the extractor on its own: the text handed to clean_json_response
    cleaned_text,     \* the extractor on its own: what clean_json_response returned
    loaded            \* the extractor on its own: what json.loads made of it

config == <<MAX_ITERATIONS, MAX_SEARCH_RESULTS>>
extractor == <<raw_text, cleaned_text, loaded>>
state == <<messages, researcher, research_plan, search_results, current_summary,
           final_report>>
vars  == <<pc, error, MAX_ITERATIONS, MAX_SEARCH_RESULTS, messages, researcher, research_plan,
           search_results, current_summary, final_report, tasks,
           source_summaries, evaluations, calls, raw_text, cleaned_text, loaded>>

\* A key of the state that has not been written
Absent == [kind |-> "absent"]
\* The extractor is not run on its own
NoExtraction == raw_text = <<>> /\ cleaned_text = Absent /\ loaded = Absent
NoError == [node |-> "", exc |-> ""]

\* What a node asked of its collaborators: how many completions (llm) and
\* searches it requested, the completion it got back (reply, when it asked
\* for exactly one), the verdict the evaluator worked with, and the combined
\* summaries the summarizer handed to the synthesis request.
NoReply   == [raised |-> FALSE, content |-> <<>>]
NoVerdict == [satisfied |-> FALSE, unanswered |-> PyNone, next_directions |-> PyNone]
NoCalls(node) ==
    [node |-> node, llm |-> 0, search |-> 0, searches |-> <<>>, combined |-> <<>>,
     reply |-> NoReply, verdict |-> NoVerdict]
LLMCall(node, reply) == [NoCalls(node) EXCEPT !.llm = 1, !.reply = reply]

\* The configured iteration budgets that are explored
IterationConfigs == (0 - 1)..MaxIterationsBound
\* The configured result limits that are explored
SearchResultConfigs == {1}

\* The conversation histories a session is started with: the first MaxTurns
\* or fewer turns of a conversation in which the user and the assistant
\* alternate (the user asks, the assistant asks back, the user answers, ...).
UserTurn      == HumanMessage(<<"Tell me about wars">>)
AssistantTurn == AIMessage(<<"Which region?">>)
Conversation(n) == [i \in 1..n |-> IF i % 2 = 1 THEN UserTurn ELSE AssistantTurn]
Histories == {Conversation(n) : n \in 0..MaxTurns}

Init ==
    /\ pc = "initialize"
    /\ error = NoError
    /\ MAX_ITERATIONS \in IterationConfigs
    /\ MAX_SEARCH_RESULTS \in SearchResultConfigs
    /\ messages \in Histories
    /\ researcher = Absent
    /\ research_plan = Absent
    /\ search_results = Absent
    /\ current_summary = Absent
    /\ final_report = Absent
    /\ tasks = <<>>
    /\ source_summaries = <<>>
    /\ evaluations = 0
    /\ calls = NoCalls("")
    /\ NoExtraction

\* An exception leaves the node: the graph run ends with it, no update of
\* the node is committed.
Raise(node, exc) ==
    /\ pc' = "raised"
    /\ error' = [node |-> node, exc |-> exc]
    /\ UNCHANGED <<config, extractor, state, tasks, source_summaries>>

\* Command(goto=...) / a static edge: the next node
Goto(node) ==
    /\ pc' = node
    /\ UNCHANGED <<error, config, extractor>>

\* not x, for a key of the state
Missing(x) == x = Absent

(***************************************************************************)
(* initialize_state                                                        *)
(***************************************************************************)
initialize_state ==
    /\ pc = "initialize"
    /\ UNCHANGED evaluations
    /\ Goto("clarifier")
    /\ calls' = NoCalls("initialize")
    /\ UNCHANGED <<state, tasks, source_summaries>>

(***************************************************************************)
(* clarification_node                                                      *)
(***************************************************************************)
\* sum(1 for msg in messages if isinstance(msg, AIMessage))
ai_message_count(msgs) == Cardinality({i \in 1..Len(msgs) : msgs[i].type = "ai"})

\* A variant that reads every decision as "no clarification needed"
ClarifyWithUserNeverAsks(data) ==
    [ok |-> IsDict(data), need_clarification |-> FALSE, question |-> <<>>]

\* ClarifyWithUser(**data): need_clarification is required and must be a
\* bool (the words true/false are accepted), question must be a str.
\* ok = FALSE stands for the TypeError / ValidationError it raises.
ClarifyWithUser(data) ==
    IF ~IsDict(data) THEN [ok |-> FALSE, need_clarification |-> FALSE, question |-> <<>>]
    ELSE LET need == DictGet(data, <<"need_clarification">>, PyNone)
             q    == DictGet(data, <<"question">>, PyStr(<<>>))
             flag == need.kind = "bool"
                     \/ (need.kind = "str" /\ need.v \in {<<"true">>, <<"false">>})
         IN  IF flag /\ IsStr(q)
             THEN [ok |-> TRUE,
                   need_clarification |-> IF need.kind = "bool" THEN need.v
                                          ELSE need.v = <<"true">>,
                   question |-> q.v]
             ELSE [ok |-> FALSE, need_clarification |-> FALSE, question |-> <<>>]

\* A variant that answers a completion it cannot parse with the default
\* decision "no clarification needed"
ClarifyDecisionWithDefault(content) ==
    LET parsed == json_loads(clean_json_response(content)) IN
    IF parsed.ok /\ ClarifyWithUser(parsed.val).ok THEN ClarifyWithUser(parsed.val)
    ELSE [ok |-> TRUE, need_clarification |-> FALSE, question |-> <<>>]

\* Lines 136-140: the decision parsed from the completion
ClarifyDecision(content) ==
    LET parsed == json_loads(clean_json_response(content)) IN
    IF parsed.ok THEN ClarifyWithUser(parsed.val)
    ELSE [ok |-> FALSE, need_clarification |-> FALSE, question |-> <<>>]

\* A variant that needs two assistant turns before it skips
AlreadyAskedTwice(msgs) == ai_message_count(msgs) > 1

\* Lines 118-124: a prior assistant turn skips the clarification
AlreadyAsked(msgs) == ai_message_count(msgs) > 0

clarification_node ==
    /\ pc = "clarifier"
    /\ UNCHANGED evaluations
    /\ IF AlreadyAsked(messages)
       THEN /\ Goto("researcher")
            /\ calls' = NoCalls("clarifier")
            /\ UNCHANGED <<state, tasks, source_summaries>>
       ELSE \E response \in Completions(ClarifyTexts) :
            /\ calls' = LLMCall("clarifier", response)
            /\ IF response.raised
               THEN Raise("clarifier", "model call failed")
               ELSE \E clarify \in {ClarifyDecision(response.content)} :
                    IF ~clarify.ok
                    THEN Raise("clarifier", "parse error")
                    ELSE IF clarify.need_clarification
                    THEN /\ Goto("__end__")
                         /\ messages' = Append(messages, AIMessage(clarify.question))
                         /\ UNCHANGED <<researcher, research_plan, search_results,
                                        current_summary, final_report, tasks,
                                        source_summaries>>
                    ELSE /\ Goto("researcher")
                         /\ UNCHANGED <<state, tasks, source_summaries>>

(***************************************************************************)
(* researcher_node                                                         *)
(***************************************************************************)
PlaceholderQuestions ==
    << PyStr(<<"What are the main aspects to research?">>),
       PyStr(<<"What are the key findings?">>),
       PyStr(<<"What conclusions can be drawn?">>) >>

\* research_brief[:200]
FocusLimit == 200

\* Lines 208-229: the object taken from the cleaned completion.  ok = FALSE
\* stands for the JSONDecodeError of the regex fallback's json.loads.
PlanData(cleaned_content, research_brief) ==
    LET direct == json_loads(cleaned_content) IN
    IF direct.ok THEN [ok |-> TRUE, data |-> direct.val]
    ELSE LET json_match == regex_braces(cleaned_content) IN
         IF json_match.found
         THEN LET again == json_loads(json_match.group) IN
              [ok |-> again.ok, data |-> again.val]
         ELSE [ok |-> TRUE,
               data |-> PyDict(<< [k |-> <<"focus">>,
                                   val |-> PyStr(Prefix(research_brief, FocusLimit))],
                                  [k |-> <<"questions">>,
                                   val |-> PyList(PlaceholderQuestions)] >>)]

\* Lines 238-241: one entry of the question list
QuestionOf(q) ==
    IF IsDict(q)
    THEN DictGet(q, <<"question">>, DictGet(q, <<"text">>, PyStr(ToStr(q))))
    ELSE PyStr(ToStr(q))

\* Lines 232-259: focus and questions taken from the object.  ok = FALSE
\* stands for the AttributeError / TypeError of data.get, of the loop over
\* questions_raw, or of focus[:80].
PlanFocus(data, research_brief) ==
    IF ~IsDict(data) THEN [ok |-> FALSE, focus |-> PyNone, questions |-> <<>>]
    ELSE LET focus         == DictGet(data, <<"focus">>, PyStr(research_brief))
             questions_raw == DictGet(data, <<"questions">>, PyList(<<>>))
         IN  IF Iterable(questions_raw) /\ Sliceable(focus)
             THEN [ok |-> TRUE, focus |-> focus,
                   questions |-> [i \in 1..Len(Items(questions_raw)) |->
                                     QuestionOf(Items(questions_raw)[i])]]
             ELSE [ok |-> FALSE, focus |-> PyNone, questions |-> <<>>]

\* A variant that starts every plan at iteration 0
CarriedIterationReset(existing_researcher) == 0

\* Lines 191-195: the iteration carried over from the existing researcher
CarriedIteration(existing_researcher) ==
    IF Missing(existing_researcher) THEN 0 ELSE existing_researcher.iteration

ResearcherState(focus, questions, iteration, satisfied) ==
    [focus |-> focus, research_questions |-> questions,
     iteration |-> iteration, satisfied |-> satisfied]

ResearchPlan(original_query, search_queries) ==
    [original_query |-> original_query, search_queries |-> search_queries]

\* Line 262
FocusSummary(focus, questions) ==
    <<"Research Focus", ":", " ">> \o ToStr(focus)
        \o <<"\n", "\n", "Key Questions", ":", "\n">> \o NumberedLines(questions)

researcher_node ==
    /\ pc = "researcher"
    /\ UNCHANGED evaluations
    /\ \E research_brief \in {get_buffer_string(messages)} :
       IF research_brief = <<>>
       THEN /\ Raise("researcher", "ValueError: No research brief provided")
            /\ calls' = NoCalls("researcher")
       ELSE \E response \in Completions(PlanTexts) :
            /\ calls' = LLMCall("researcher", response)
            /\ IF response.raised
               THEN Raise("researcher", "model call failed")
               ELSE \E parsed \in {PlanData(clean_json_response(response.content),
                                              research_brief)} :
                    \E plan \in {PlanFocus(parsed.data, research_brief)} :
                        IF ~parsed.ok
                        THEN Raise("researcher", "JSONDecodeError")
                        ELSE IF ~plan.ok
                        THEN Raise("researcher", "AttributeError or TypeError")
                        ELSE /\ Goto("query_generator")
                             /\ researcher' =
                                    ResearcherState(plan.focus, plan.questions,
                                                    CarriedIteration(researcher), FALSE)
                             /\ research_plan' = ResearchPlan(research_brief, PyList(<<>>))
                             /\ messages' =
                                    Append(messages,
                                           AIMessage(FocusSummary(plan.focus, plan.questions)))
                             /\ UNCHANGED <<search_results, current_summary, final_report,
                                            tasks, source_summaries>>

(***************************************************************************)
(* query_generator_node                                                    *)
(***************************************************************************)
\* Lines 300-309: building the prompt.  focus[:100] needs a sliceable focus
\* when focus is truthy, "\n".join(questions) needs every question a str.
QueryPromptOk(focus, questions) ==
    /\ (Truthy(focus) => Sliceable(focus))
    /\ \A i \in 1..Len(questions) : IsStr(questions[i])

\* Lines 315-317: the query list parsed from the completion.  ok = FALSE
\* stands for the JSONDecodeError of json.loads or the TypeError of len().
ParseQueries(content) ==
    LET parsed == json_loads(clean_json_response(content)) IN
    [ok |-> parsed.ok /\ HasLen(parsed.val), search_queries |-> parsed.val]

\* Line 324
QueriesMessage(search_queries) ==
    <<"Generated Search Queries", ":", "\n">> \o NumberedLines(Items(search_queries))

\* A variant that reports the parsed queries in the history and leaves the
\* plan's query list as it found it
query_generator_node_keeps_plan ==
    /\ pc = "query_generator"
    /\ UNCHANGED evaluations
    /\ IF Missing(researcher) \/ Missing(research_plan)
       THEN /\ Goto("web_searcher")
            /\ calls' = NoCalls("query_generator")
            /\ research_plan' = IF Missing(research_plan)
                                THEN ResearchPlan(<<>>, PyList(<<>>))
                                ELSE research_plan
            /\ UNCHANGED <<messages, researcher, search_results, current_summary,
                           final_report, tasks, source_summaries>>
       ELSE IF ~QueryPromptOk(researcher.focus, researcher.research_questions)
       THEN /\ Raise("query_generator", "TypeError")
            /\ calls' = NoCalls("query_generator")
       ELSE \E response \in Completions(QueryTexts) :
            /\ calls' = LLMCall("query_generator", response)
            /\ IF response.raised
               THEN Raise("query_generator", "model call failed")
               ELSE \E parsed \in {ParseQueries(response.content)} :
                    IF ~parsed.ok
                    THEN Raise("query_generator", "parse error")
                    ELSE /\ Goto("web_searcher")
                         /\ messages' =
                                Append(messages,
                                       AIMessage(QueriesMessage(parsed.search_queries)))
                         /\ UNCHANGED <<researcher, research_plan, search_results,
                                        current_summary, final_report, tasks,
                                        source_summaries>>

query_generator_node ==
    /\ pc = "query_generator"
    /\ UNCHANGED evaluations
    /\ IF Missing(researcher) \/ Missing(research_plan)
       THEN \* lines 296-298: only the plan is written; the static edge leads on
            /\ Goto("web_searcher")
            /\ calls' = NoCalls("query_generator")
            /\ research_plan' = IF Missing(research_plan)
                                THEN ResearchPlan(<<>>, PyList(<<>>))
                                ELSE research_plan
            /\ UNCHANGED <<messages, researcher, search_results, current_summary,
                           final_report, tasks, source_summaries>>
       ELSE IF ~QueryPromptOk(researcher.focus, researcher.research_questions)
       THEN /\ Raise("query_generator", "TypeError")
            /\ calls' = NoCalls("query_generator")
       ELSE \E response \in Completions(QueryTexts) :
            /\ calls' = LLMCall("query_generator", response)
            /\ IF response.raised
               THEN Raise("query_generator", "model call failed")
               ELSE \E parsed \in {ParseQueries(response.content)} :
                    IF ~parsed.ok
                    THEN Raise("query_generator", "parse error")
                    ELSE /\ Goto("web_searcher")
                         /\ research_plan' =
                                [research_plan EXCEPT !.search_queries = parsed.search_queries]
                         /\ messages' =
                                Append(messages,
                                       AIMessage(QueriesMessage(parsed.search_queries)))
                         /\ UNCHANGED <<researcher, search_results, current_summary,
                                        final_report, tasks, source_summaries>>

(***************************************************************************)
(* web_searcher_node                                                       *)
(***************************************************************************)
\* What the provider answers to one query: it raises, or it returns results
\* in a dict, in a list or in something else; a result is either a mapping
\* that converts to a RawSource ("good") or one that does not ("bad").
RECURSIVE ResultLists(_)
ResultLists(n) ==
    IF n = 0 THEN {<<>>}
    ELSE LET shorter == ResultLists(n - 1) IN
         shorter \cup {Append(r, x) : r \in {y \in shorter : Len(y) = n - 1},
                                      x \in {"good", "bad"}}
SearchAnswers(max_results) ==
    {[raised |-> TRUE, type |-> "none", results |-> <<>>]}
        \cup [raised : {FALSE}, type : {"dict", "list", "other"},
              results : ResultLists(max_results)]

\* RawSource(url=..., title=..., content=..., snippet=..., retrieved_at=...)
\* for result number r of query number q
RawSource(q, r) ==
    [url     |-> <<"url", ToString(q), ToString(r)>>,
     title   |-> <<"title", ToString(q), ToString(r)>>,
     content |-> <<"content", ToString(q), ToString(r)>>]

\* Lines 384-396: the result list taken from the provider's answer
ResultsList(answer) ==
    IF answer.type \in {"dict", "list"} THEN answer.results ELSE <<>>

\* Lines 399-411: the sources one query appends.  The conversion loop stops
\* at the first result that does not convert (the exception is caught
\* outside the loop); what was appended before it stays.
RECURSIVE Converted(_, _, _)
Converted(results_list, q, r) ==
    IF r > Len(results_list) \/ results_list[r] = "bad" THEN <<>>
    ELSE <<RawSource(q, r)>> \o Converted(results_list, q, r + 1)

SourcesOfQuery(answer, q) ==
    IF answer.raised THEN <<>> ELSE Converted(ResultsList(answer), q, 1)

\* A variant of the loop without the try block around one query: the
\* first failing search ends the loop
RECURSIVE CollectSourcesUntilFailure(_, _)
CollectSourcesUntilFailure(answers, q) ==
    IF q > Len(answers) \/ answers[q].raised THEN <<>>
    ELSE SourcesOfQuery(answers[q], q) \o CollectSourcesUntilFailure(answers, q + 1)

\* Lines 373-413: the loop over the queries; answers[q] is the provider's
\* answer to query number q
RECURSIVE CollectSources(_, _)
CollectSources(answers, q) ==
    IF q > Len(answers) THEN <<>>
    ELSE SourcesOfQuery(answers[q], q) \o CollectSources(answers, q + 1)

\* Lines 375-380: the searches the loop makes, in the order it makes them:
\* the query handed to search_tool.invoke and what the provider answered
RECURSIVE SearchLog(_, _, _)
SearchLog(queries, answers, q) ==
    IF q > Len(queries) THEN <<>>
    ELSE <<[query |-> queries[q], answer |-> answers[q]]>>
             \o SearchLog(queries, answers, q + 1)

\* One answer per query
RECURSIVE AnswerLists(_, _)
AnswerLists(n, max_results) ==
    IF n = 0 THEN {<<>>}
    ELSE {Append(a, x) : a \in AnswerLists(n - 1, max_results),
                         x \in SearchAnswers(max_results)}

\* A variant that leaves the stored source list alone when the search tool
\* cannot be built or the plan is missing
web_searcher_node_keeps_sources ==
    /\ pc = "web_searcher"
    /\ UNCHANGED evaluations
    /\ Goto("summarizer")
    /\ UNCHANGED <<messages, researcher, research_plan, current_summary, final_report,
                   tasks, source_summaries>>
    /\ \E tool_ok \in BOOLEAN :
       IF ~tool_ok \/ Missing(research_plan)
       THEN /\ UNCHANGED search_results
            /\ calls' = NoCalls("web_searcher")
       ELSE LET search_queries == research_plan.search_queries IN
            IF ~Truthy(search_queries) \/ ~Iterable(search_queries)
            THEN /\ search_results' = PyList(<<>>)
                 /\ calls' = NoCalls("web_searcher")
            ELSE \E answers \in AnswerLists(Len(Items(search_queries)), MAX_SEARCH_RESULTS) :
                 /\ search_results' = PyList(CollectSources(answers, 1))
                 /\ \E log \in {SearchLog(Items(search_queries), answers, 1)} :
                        calls' = [NoCalls("web_searcher") EXCEPT !.search = Len(log),
                                                                !.searches = log]

\* A variant without the outer try block: a failure outside the loop over
\* the queries leaves the node
web_searcher_node_unguarded ==
    /\ pc = "web_searcher"
    /\ UNCHANGED evaluations
    /\ \E tool_ok \in BOOLEAN :
       IF ~tool_ok
       THEN /\ Raise("web_searcher", "ValueError")
            /\ calls' = NoCalls("web_searcher")
       ELSE IF Missing(research_plan)
       THEN /\ Goto("summarizer")
            /\ search_results' = PyList(<<>>)
            /\ calls' = NoCalls("web_searcher")
            /\ UNCHANGED <<messages, researcher, research_plan, current_summary,
                           final_report, tasks, source_summaries>>
       ELSE LET search_queries == research_plan.search_queries IN
            IF Truthy(search_queries) /\ ~Iterable(search_queries)
            THEN /\ Raise("web_searcher", "TypeError")
                 /\ calls' = NoCalls("web_searcher")
            ELSE /\ Goto("summarizer")
                 /\ UNCHANGED <<messages, researcher, research_plan, current_summary,
                                final_report, tasks, source_summaries>>
                 /\ IF ~Truthy(search_queries)
                    THEN /\ search_results' = PyList(<<>>)
                         /\ calls' = NoCalls("web_searcher")
                    ELSE \E answers \in AnswerLists(Len(Items(search_queries)),
                                                    MAX_SEARCH_RESULTS) :
                         /\ search_results' = PyList(CollectSources(answers, 1))
                         /\ \E log \in {SearchLog(Items(search_queries), answers, 1)} :
                                calls' = [NoCalls("web_searcher") EXCEPT
                                              !.search = Len(log), !.searches = log]

web_searcher_node ==
    /\ pc = "web_searcher"
    /\ UNCHANGED evaluations
    /\ Goto("summarizer")
    /\ UNCHANGED <<messages, researcher, research_plan, current_summary, final_report,
                   tasks, source_summaries>>
    /\ \E tool_ok \in BOOLEAN :
       IF ~tool_ok \/ Missing(research_plan)
       THEN \* get_search_tool() raised (lines 420-422), or no plan (362-364)
            /\ search_results' = PyList(<<>>)
            /\ calls' = NoCalls("web_searcher")
       ELSE LET search_queries == research_plan.search_queries IN
            IF ~Truthy(search_queries) \/ ~Iterable(search_queries)
            THEN \* no queries (368-370), or enumerate() raised (420-422)
                 /\ search_results' = PyList(<<>>)
                 /\ calls' = NoCalls("web_searcher")
            ELSE \E answers \in AnswerLists(Len(Items(search_queries)), MAX_SEARCH_RESULTS) :
                 /\ search_results' = PyList(CollectSources(answers, 1))
                 /\ \E log \in {SearchLog(Items(search_queries), answers, 1)} :
                        calls' = [NoCalls("web_searcher") EXCEPT !.search = Len(log),
                                                                !.searches = log]

(***************************************************************************)
(* summarizer_node and summarize_single_source.  The node is modelled in   *)
(* steps: it submits one task per source to the pool, the pool's workers   *)
(* take the tasks and run them, the node collects the finished tasks as    *)
(* they complete, and once all are collected it makes the synthesis call.  *)
(***************************************************************************)
\* ThreadPoolExecutor(max_workers=5)
MaxWorkers == 5

\* Lines 439-455: what the task returns for a source; failed says whether
\* anything inside the try block raised
summarize_single_source(source, failed) ==
    IF failed
    THEN source.title \o <<" (Error: could not summarize)", "\n">>
    ELSE source.title \o <<"\n">> \o DigestText \o <<"\n">>

\* state.get("search_results", [])
SourcesOf(results) == IF Missing(results) THEN <<>> ELSE results.v

Queued(i)  == tasks[i].status = "queued"
Running(i) == tasks[i].status = "running"
Done(i)    == tasks[i].status = "done"
RunningCount == Cardinality({i \in 1..Len(tasks) : Running(i)})

\* A variant without the enclosing try block: reading a missing researcher
\* state leaves the node as an exception
summarizer_submit_unguarded ==
    /\ pc = "summarizer"
    /\ UNCHANGED <<evaluations, messages, researcher, research_plan, search_results,
                   final_report>>
    /\ IF Missing(researcher)
       THEN /\ pc' = "raised"
            /\ error' = [node |-> "summarizer", exc |-> "AttributeError"]
            /\ calls' = NoCalls("summarizer")
            /\ UNCHANGED <<config, extractor, current_summary, tasks, source_summaries>>
       ELSE /\ Goto("summarizer_map")
            /\ tasks' = [i \in 1..Len(SourcesOf(search_results)) |->
                            [status |-> "queued", result |-> <<>>, collected |-> FALSE]]
            /\ source_summaries' = <<>>
            /\ UNCHANGED <<current_summary, calls>>

\* Lines 470-487: read the state and submit every task
summarizer_submit ==
    /\ pc = "summarizer"
    /\ UNCHANGED <<evaluations, messages, researcher, research_plan, search_results,
                   final_report>>
    /\ IF Missing(researcher)
       THEN \* researcher.get raises; lines 525-527
            /\ Goto("evaluator")
            /\ current_summary' = PyStr(<<>>)
            /\ calls' = NoCalls("summarizer")
            /\ UNCHANGED <<tasks, source_summaries>>
       ELSE /\ Goto("summarizer_map")
            /\ tasks' = [i \in 1..Len(SourcesOf(search_results)) |->
                            [status |-> "queued", result |-> <<>>, collected |-> FALSE]]
            /\ source_summaries' = <<>>
            /\ UNCHANGED <<current_summary, calls>>

\* A variant of the pool that starts a thread for every submitted task
worker_start_unlimited(i) ==
    /\ pc = "summarizer_map"
    /\ Queued(i)
    /\ \A j \in 1..(i - 1) : ~Queued(j)
    /\ tasks' = [tasks EXCEPT ![i].status = "running"]
    /\ UNCHANGED <<pc, error, config, extractor, state, source_summaries, evaluations, calls>>

\* A variant of the pool whose workers are not used again: a worker that
\* has run a task takes no other
worker_start_once(i) ==
    /\ pc = "summarizer_map"
    /\ Queued(i)
    /\ \A j \in 1..(i - 1) : ~Queued(j)
    /\ Cardinality({j \in 1..Len(tasks) : ~Queued(j)}) < MaxWorkers
    /\ tasks' = [tasks EXCEPT ![i].status = "running"]
    /\ UNCHANGED <<pc, error, config, extractor, state, source_summaries, evaluations, calls>>

\* A free worker of the pool takes the oldest queued task
worker_start(i) ==
    /\ pc = "summarizer_map"
    /\ Queued(i)
    /\ \A j \in 1..(i - 1) : ~Queued(j)
    /\ RunningCount < MaxWorkers
    /\ tasks' = [tasks EXCEPT ![i].status = "running"]
    /\ UNCHANGED <<pc, error, config, extractor, state, source_summaries, evaluations, calls>>

\* A variant in which the task itself appends its result to the list of
\* summaries
worker_finish_appends(i) ==
    /\ pc = "summarizer_map"
    /\ Running(i)
    /\ \E failed \in BOOLEAN :
       \E summary \in {summarize_single_source(SourcesOf(search_results)[i], failed)} :
          /\ tasks' = [tasks EXCEPT ![i].status = "done", ![i].result = summary,
                                    ![i].collected = TRUE]
          /\ source_summaries' = Append(source_summaries, summary)
    /\ UNCHANGED <<pc, error, config, extractor, state, evaluations, calls>>

\* A variant in which a failing task cancels the tasks still waiting
worker_finish_cancels(i) ==
    /\ pc = "summarizer_map"
    /\ Running(i)
    /\ \E failed \in BOOLEAN :
       tasks' = [j \in 1..Len(tasks) |->
                    IF j = i
                    THEN [tasks[j] EXCEPT !.status = "done",
                                          !.result = summarize_single_source(
                                                         SourcesOf(search_results)[i], failed)]
                    ELSE IF failed /\ Queued(j)
                    THEN [tasks[j] EXCEPT !.status = "done"]
                    ELSE tasks[j]]
    /\ UNCHANGED <<pc, error, config, extractor, state, source_summaries, evaluations, calls>>

\* A running task returns: its digest, or the placeholder when it failed
worker_finish(i) ==
    /\ pc = "summarizer_map"
    /\ Running(i)
    /\ \E failed \in BOOLEAN :
       tasks' = [tasks EXCEPT ![i].status = "done",
                              ![i].result = summarize_single_source(SourcesOf(search_results)[i], failed)]
    /\ UNCHANGED <<pc, error, config, extractor, state, source_summaries, evaluations, calls>>

\* A variant that keeps only the summary collected last
summarizer_collect_last(i) ==
    /\ pc = "summarizer_map"
    /\ Done(i)
    /\ ~tasks[i].collected
    /\ tasks' = [tasks EXCEPT ![i].collected = TRUE]
    /\ source_summaries' = <<tasks[i].result>>
    /\ UNCHANGED <<pc, error, config, extractor, state, evaluations, calls>>

\* Lines 490-496: as_completed hands over a finished task; its result is
\* appended to source_summaries
summarizer_collect(i) ==
    /\ pc = "summarizer_map"
    /\ Done(i)
    /\ ~tasks[i].collected
    /\ tasks' = [tasks EXCEPT ![i].collected = TRUE]
    /\ source_summaries' = Append(source_summaries, tasks[i].result)
    /\ UNCHANGED <<pc, error, config, extractor, state, evaluations, calls>>

\* Line 521
IterationSummary(n, final_summary) ==
    <<"Iteration Summary (from ", ToString(n), " sources)", ":", "\n">> \o final_summary

\* A variant that waits only until every task has been started
summarizer_reduce_early ==
    /\ pc = "summarizer_map"
    /\ \A i \in 1..Len(tasks) : ~Queued(i)
    /\ Goto("evaluator")
    /\ tasks' = <<>>
    /\ source_summaries' = <<>>
    /\ UNCHANGED <<evaluations, researcher, research_plan, search_results, final_report>>
    /\ \E response \in Completions({SynthesisText}) :
       /\ calls' = [LLMCall("summarizer", response) EXCEPT
                        !.llm = Len(tasks) + 1,
                        !.combined = Join(<<"\n", "\n">>, source_summaries)]
       /\ IF response.raised
          THEN /\ current_summary' = PyStr(<<>>)
               /\ UNCHANGED messages
          ELSE /\ current_summary' = PyStr(response.content)
               /\ messages' =
                      Append(messages,
                             AIMessage(IterationSummary(Len(SourcesOf(search_results)),
                                                        response.content)))

\* Lines 498-527: every task is collected; the synthesis call and the update
\* A variant of the reduce phase that issues no synthesis request when the
\* map phase produced no summary
summarizer_reduce_skips_empty ==
    /\ pc = "summarizer_map"
    /\ \A i \in 1..Len(tasks) : tasks[i].collected
    /\ Goto("evaluator")
    /\ tasks' = <<>>
    /\ source_summaries' = <<>>
    /\ UNCHANGED <<evaluations, researcher, research_plan, search_results, final_report>>
    /\ IF source_summaries = <<>>
       THEN /\ calls' = NoCalls("summarizer")
            /\ current_summary' = PyStr(<<>>)
            /\ UNCHANGED messages
       ELSE \E response \in Completions({SynthesisText}) :
            /\ calls' = [LLMCall("summarizer", response) EXCEPT
                             !.llm = Len(tasks) + 1,
                             !.combined = Join(<<"\n", "\n">>, source_summaries)]
            /\ IF response.raised
               THEN /\ current_summary' = PyStr(<<>>)
                    /\ UNCHANGED messages
               ELSE /\ current_summary' = PyStr(response.content)
                    /\ messages' =
                           Append(messages,
                                  AIMessage(IterationSummary(Len(SourcesOf(search_results)),
                                                             response.content)))

summarizer_reduce ==
    /\ pc = "summarizer_map"
    /\ \A i \in 1..Len(tasks) : tasks[i].collected
    /\ Goto("evaluator")
    /\ tasks' = <<>>
    /\ source_summaries' = <<>>
    /\ UNCHANGED <<evaluations, researcher, research_plan, search_results, final_report>>
    /\ \E response \in Completions({SynthesisText}) :
       /\ calls' = [LLMCall("summarizer", response) EXCEPT
                        !.llm = Len(tasks) + 1,
                        !.combined = Join(<<"\n", "\n">>, source_summaries)]
       /\ IF response.raised
          THEN /\ current_summary' = PyStr(<<>>)
               /\ UNCHANGED messages
          ELSE /\ current_summary' = PyStr(response.content)
               /\ messages' =
                      Append(messages,
                             AIMessage(IterationSummary(Len(SourcesOf(search_results)),
                                                        response.content)))

(***************************************************************************)
(* evaluate_progress_node                                                  *)
(***************************************************************************)
\* A variant whose defaults report success
DefaultVerdictSatisfied(research_questions) ==
    [satisfied |-> TRUE, unanswered |-> PyList(research_questions),
     next_directions |-> PyList(<<>>)]

\* Lines 570-599: the verdict.  Whatever goes wrong inside the try block
\* leaves the defaults.
DefaultVerdict(research_questions) ==
    [satisfied |-> FALSE, unanswered |-> PyList(research_questions),
     next_directions |-> PyList(<<>>)]

VerdictOf(data, research_questions) ==
    IF ~IsDict(data) THEN DefaultVerdict(research_questions)
    ELSE [satisfied |-> Truthy(DictGet(data, <<"satisfied">>, PyBool(FALSE))),
          unanswered |-> DictGet(data, <<"unanswered">>, PyList(research_questions)),
          next_directions |-> DictGet(data, <<"next_directions">>, PyList(<<>>))]

EvalVerdict(response, research_questions) ==
    IF response.raised THEN DefaultVerdict(research_questions)
    ELSE LET cleaned_content == clean_json_response(response.content)
             direct          == json_loads(cleaned_content)
             json_match      == regex_braces(cleaned_content)
             again           == json_loads(json_match.group)
         IN  IF direct.ok THEN VerdictOf(direct.val, research_questions)
             ELSE IF json_match.found /\ again.ok
             THEN VerdictOf(again.val, research_questions)
             ELSE DefaultVerdict(research_questions)

\* A variant that overrides the verdict only when the pass count is exactly
\* the ceiling
FinalSatisfiedAtCeiling(satisfied, current_iteration, max_iterations) ==
    IF current_iteration + 1 = max_iterations THEN TRUE ELSE satisfied

\* Lines 601-606: the verdict is overridden at the iteration ceiling
FinalSatisfied(satisfied, current_iteration, max_iterations) ==
    IF current_iteration + 1 >= max_iterations THEN TRUE ELSE satisfied

\* A variant that always loops back
NextNodeAlwaysLoop(satisfied) == "researcher"

\* Line 626
NextNode(satisfied) == IF satisfied THEN "report" ELSE "researcher"

\* Lines 620-623
EvalMessage(iteration, satisfied, unanswered) ==
    <<"Evaluation (Iteration ", ToString(iteration), ")", ":", "\n",
      "Satisfied", ":", " ", (IF satisfied THEN "True" ELSE "False"), "\n">>
        \o (IF Truthy(unanswered)
            THEN <<"Unanswered Questions", ":", " ", ToString(PyLen(unanswered)), "\n">>
            ELSE <<>>)

evaluate_progress_node ==
    /\ pc = "evaluator"
    /\ evaluations' = evaluations + 1
    /\ IF Missing(researcher)
       THEN \* lines 550-558: a plain update, no goto: the graph run ends
            /\ Goto("__end__")
            /\ researcher' = ResearcherState(PyStr(<<>>), <<>>, 0, FALSE)
            /\ calls' = NoCalls("evaluator")
            /\ UNCHANGED <<messages, research_plan, search_results, current_summary,
                           final_report, tasks, source_summaries>>
       ELSE IF \E i \in 1..Len(researcher.research_questions) :
                  ~IsStr(researcher.research_questions[i])
       THEN \* line 566: "\n".join(research_questions)
            /\ Raise("evaluator", "TypeError")
            /\ calls' = NoCalls("evaluator")
       ELSE \E response \in Completions(EvalTexts) :
            \E verdict \in {EvalVerdict(response, researcher.research_questions)} :
            LET current_iteration == researcher.iteration
                satisfied == FinalSatisfied(verdict.satisfied, current_iteration,
                                            MAX_ITERATIONS)
            IN  /\ calls' = [LLMCall("evaluator", response) EXCEPT !.verdict = verdict]
                /\ IF ~HasLen(verdict.unanswered)
                   THEN \* line 617: len(unanswered), outside the try block
                        Raise("evaluator", "TypeError")
                   ELSE /\ Goto(NextNode(satisfied))
                        /\ researcher' =
                               ResearcherState(researcher.focus,
                                               researcher.research_questions,
                                               current_iteration + 1, satisfied)
                        /\ messages' =
                               Append(messages,
                                      AIMessage(EvalMessage(current_iteration + 1, satisfied,
                                                            verdict.unanswered)))
                        /\ UNCHANGED <<research_plan, search_results, current_summary,
                                       final_report, tasks, source_summaries>>

(***************************************************************************)
(* report_generation_node                                                  *)
(***************************************************************************)
NoResearcherReport == <<"Unable to generate report - no researcher state.">>
ErrorReport(e)     == <<"Error generating report", ":", " ", e>>

\* A variant whose except branch ends the session without writing a report
report_generation_node_silent ==
    /\ pc = "report"
    /\ Goto("__end__")
    /\ UNCHANGED <<evaluations, researcher, research_plan, search_results,
                   current_summary, tasks, source_summaries>>
    /\ IF Missing(researcher)
       THEN /\ final_report' = PyStr(NoResearcherReport)
            /\ calls' = NoCalls("report")
            /\ UNCHANGED messages
       ELSE IF \E i \in 1..Len(researcher.research_questions) :
                  ~IsStr(researcher.research_questions[i])
       THEN /\ calls' = NoCalls("report")
            /\ UNCHANGED <<messages, final_report>>
       ELSE \E response \in Completions(ReportTexts) :
            /\ calls' = LLMCall("report", response)
            /\ IF response.raised
               THEN UNCHANGED <<messages, final_report>>
               ELSE /\ final_report' = PyStr(response.content)
                    /\ messages' = Append(messages, AIMessage(response.content))

\* A variant without the try block: a failure inside the node leaves it
report_generation_node_unguarded ==
    /\ pc = "report"
    /\ UNCHANGED evaluations
    /\ IF Missing(researcher)
       THEN /\ Goto("__end__")
            /\ final_report' = PyStr(NoResearcherReport)
            /\ calls' = NoCalls("report")
            /\ UNCHANGED <<messages, researcher, research_plan, search_results,
                           current_summary, tasks, source_summaries>>
       ELSE IF \E i \in 1..Len(researcher.research_questions) :
                  ~IsStr(researcher.research_questions[i])
       THEN /\ Raise("report", "TypeError")
            /\ calls' = NoCalls("report")
       ELSE \E response \in Completions(ReportTexts) :
            /\ calls' = LLMCall("report", response)
            /\ IF response.raised
               THEN Raise("report", "model call failed")
               ELSE /\ Goto("__end__")
                    /\ final_report' = PyStr(response.content)
                    /\ messages' = Append(messages, AIMessage(response.content))
                    /\ UNCHANGED <<researcher, research_plan, search_results,
                                   current_summary, tasks, source_summaries>>

report_generation_node ==
    /\ pc = "report"
    /\ Goto("__end__")
    /\ UNCHANGED <<evaluations, researcher, research_plan, search_results,
                   current_summary, tasks, source_summaries>>
    /\ IF Missing(researcher)
       THEN /\ final_report' = PyStr(NoResearcherReport)
            /\ calls' = NoCalls("report")
            /\ UNCHANGED messages
       ELSE IF \E i \in 1..Len(researcher.research_questions) :
                  ~IsStr(researcher.research_questions[i])
       THEN \* ' '.join(research_questions) raises inside the try block
            /\ final_report' = PyStr(ErrorReport("TypeError"))
            /\ calls' = NoCalls("report")
            /\ UNCHANGED messages
       ELSE \E response \in Completions(ReportTexts) :
            /\ calls' = LLMCall("report", response)
            /\ IF response.raised
               THEN /\ final_report' = PyStr(ErrorReport("model call failed"))
                    /\ UNCHANGED messages
               ELSE /\ final_report' = PyStr(response.content)
                    /\ messages' = Append(messages, AIMessage(response.content))

(***************************************************************************)
(* The graph                                                               *)
(***************************************************************************)
Next ==
    \/ initialize_state
    \/ clarification_node
    \/ researcher_node
    \/ query_generator_node
    \/ web_searcher_node
    \/ summarizer_submit
    \/ \E i \in 1..Len(tasks) : worker_start(i)
    \/ \E i \in 1..Len(tasks) : worker_finish(i)
    \/ \E i \in 1..Len(tasks) : summarizer_collect(i)
    \/ summarizer_reduce
    \/ evaluate_progress_node
    \/ report_generation_node

Spec == Init /\ [][Next]_vars

\* The graph engine runs the next node whenever there is one, and every
\* collaborator call returns or fails.
FairSpec == Spec /\ WF_vars(Next)

(***************************************************************************)
(* The summarizer on its own: the node is handed a state in which the      *)
(* searcher has stored n sources (the n results of one query).             *)
(* ResearchState declares researcher NotRequired, and the node reads it    *)
(* with state.get, so a state without it is among the inputs.              *)
(***************************************************************************)
SampleResearcher ==
    ResearcherState(PyStr(<<"wars">>), <<PyStr(<<"Question one">>)>>, 0, FALSE)
FoundSources(n) == [r \in 1..n |-> RawSource(1, r)]

SummarizerInput(most) ==
    /\ pc = "summarizer"
    /\ error = NoError
    /\ MAX_ITERATIONS = 1
    /\ MAX_SEARCH_RESULTS = most
    /\ messages = <<UserTurn>>
    /\ researcher \in {Absent, SampleResearcher}
    /\ research_plan = ResearchPlan(get_buffer_string(<<UserTurn>>),
                                    PyList(<<PyStr(<<"query A">>)>>))
    /\ search_results \in {PyList(FoundSources(n)) : n \in 0..most}
    /\ current_summary = Absent
    /\ final_report = Absent
    /\ tasks = <<>>
    /\ source_summaries = <<>>
    /\ evaluations = 0
    /\ calls = [NoCalls("web_searcher") EXCEPT !.search = 1]
    /\ NoExtraction

MapInit == SummarizerInput(MaxSources)

MapNext ==
    \/ summarizer_submit
    \/ \E i \in 1..Len(tasks) : worker_start(i)
    \/ \E i \in 1..Len(tasks) : worker_finish(i)
    \/ \E i \in 1..Len(tasks) : summarizer_collect(i)
    \/ summarizer_reduce

MapSpec == MapInit /\ [][MapNext]_vars

\* The pool with more sources than workers.  The summary model either
\* answers every request of a pass or fails every one of them: the first
\* task to finish decides, the others follow it.
PoolInit == SummarizerInput(MaxPoolSources)

SameOutcome(i, j) ==
    (tasks'[i].result = summarize_single_source(SourcesOf(search_results)[i], TRUE))
        = (tasks'[j].result = summarize_single_source(SourcesOf(search_results)[j], TRUE))

PoolNext ==
    \/ summarizer_submit
    \/ \E i \in 1..Len(tasks) : worker_start(i)
    \/ \E i \in 1..Len(tasks) :
           /\ worker_finish(i)
           /\ \A j \in 1..Len(tasks) : Done(j) => SameOutcome(i, j)
    \/ \E i \in 1..Len(tasks) : summarizer_collect(i)
    \/ summarizer_reduce

PoolSpec == PoolInit /\ [][PoolNext]_vars

(***************************************************************************)
(* The searcher on its own: the node is handed a plan of n queries, and    *)
(* the provider returns at most MAX_SEARCH_RESULTS results for a query.    *)
(***************************************************************************)
PlanQueries(n) == [q \in 1..n |-> PyStr(<<"query ", ToString(q)>>)]

SearchInit ==
    /\ pc = "web_searcher"
    /\ error = NoError
    /\ MAX_ITERATIONS = 1
    /\ MAX_SEARCH_RESULTS \in 1..MaxResults
    /\ messages = <<UserTurn>>
    /\ researcher = SampleResearcher
    /\ research_plan \in {ResearchPlan(get_buffer_string(<<UserTurn>>), PyList(PlanQueries(n))) :
                              n \in 0..MaxQueries}
    /\ search_results = Absent
    /\ current_summary = Absent
    /\ final_report = Absent
    /\ tasks = <<>>
    /\ source_summaries = <<>>
    /\ evaluations = 0
    /\ calls = LLMCall("query_generator", Completion(QueriesOne))
    /\ NoExtraction

SearchNext == web_searcher_node

SearchSpec == SearchInit /\ [][SearchNext]_vars

\* The searcher alone on every state it guards against: no plan in the
\* state (the node reads it with state.get), a plan with 0..MaxQueries
\* queries, and a plan whose query list is no list at all
SearcherPlans ==
    {Absent}
        \cup {ResearchPlan(get_buffer_string(<<UserTurn>>), PyList(PlanQueries(n))) :
                  n \in 0..MaxQueries}
        \cup {ResearchPlan(get_buffer_string(<<UserTurn>>), PyBool(TRUE))}

SearcherInit ==
    /\ pc = "web_searcher"
    /\ error = NoError
    /\ MAX_ITERATIONS = 1
    /\ MAX_SEARCH_RESULTS \in 1..MaxResults
    /\ messages = <<UserTurn>>
    /\ researcher = SampleResearcher
    /\ research_plan \in SearcherPlans
    /\ search_results \in {Absent, PyList(FoundSources(1))}
    /\ current_summary = Absent
    /\ final_report = Absent
    /\ tasks = <<>>
    /\ source_summaries = <<>>
    /\ evaluations = 0
    /\ calls = NoCalls("query_generator")
    /\ NoExtraction

SearcherNext == web_searcher_node

SearcherSpec == SearcherInit /\ [][SearcherNext]_vars

(***************************************************************************)
(* The extractor on its own: clean_json_response is handed a text and      *)
(* json.loads the cleaned text, as every node does with a completion.  The *)
(* texts are a JSON object inside surrounding prose and code fences, and   *)
(* texts without "{" and "[".                                              *)
(***************************************************************************)
\* The objects that are embedded
EmbeddedObjects == {ClarifyGo, PlanGood, EvalYes}
\* The prose before and after an object
TextsBefore ==
    {<<>>, <<" ", "\n">>, <<"Sure", ":", " ">>, <<"see", " ", "[", "1", "]", ":", " ">>,
     <<"set", " ", "{", "x", "}", ":", " ">>, <<"a", "}", " ">>, <<"b", "]", " ">>}
TextsAfter ==
    {<<>>, <<"\n", " ">>, <<" ", "Done", ".">>, <<" ", "[", "2", "]">>,
     <<" ", "{", "y", "}">>, <<" ", "}">>, <<" ", "]">>, <<" ", "{">>}
\* How an object is embedded: in prose, in prose inside a fenced block, in a
\* fenced block inside prose
EmbedShapes == {"prose", "fenced", "fence in prose"}
Embed(shape, before, object, after) ==
    CASE shape = "prose"  -> before \o object \o after
      [] shape = "fenced" -> Fenced(before \o object \o after)
      [] OTHER            -> before \o Fenced(object) \o after
EmbeddedTexts ==
    {Embed(shape, before, object, after) :
        shape \in EmbedShapes, before \in TextsBefore,
        object \in EmbeddedObjects, after \in TextsAfter}

\* Texts without "{" and "[": white space, an opening fence with or without
\* a language tag or with text on its line, a body, a closing fence alone
\* on its line or not, white space
MarkerFreeTexts ==
    {lead \o opening \o body \o closing \o trail :
        lead    \in {<<>>, <<" ">>, <<"\n", " ">>},
        opening \in {<<>>, <<Fence, "\n">>, <<Fence, "json", "\n">>, <<Fence>>,
                     <<"so", " ", Fence, "\n">>},
        body    \in {<<>>, <<"hello">>, <<"hello", "\n", " ", "world">>,
                     <<"a", "]", " ", "}">>},
        closing \in {<<>>, <<"\n", Fence>>, <<"\n", " ", Fence, " ">>, <<"\n", Fence, "x">>,
                     <<Fence>>},
        trail   \in {<<>>, <<"\n">>}}

ExtractInit ==
    /\ pc = "clean_json_response"
    /\ error = NoError
    /\ MAX_ITERATIONS = 1
    /\ MAX_SEARCH_RESULTS = 1
    /\ messages = <<>>
    /\ researcher = Absent
    /\ research_plan = Absent
    /\ search_results = Absent
    /\ current_summary = Absent
    /\ final_report = Absent
    /\ tasks = <<>>
    /\ source_summaries = <<>>
    /\ evaluations = 0
    /\ calls = NoCalls("")
    /\ raw_text \in EmbeddedTexts \cup MarkerFreeTexts
    /\ cleaned_text = Absent
    /\ loaded = Absent

\* cleaned = clean_json_response(raw)
CleanResponse ==
    /\ pc = "clean_json_response"
    /\ pc' = "json_loads"
    /\ cleaned_text' = PyStr(clean_json_response(raw_text))
    /\ UNCHANGED <<error, config, state, tasks, source_summaries, evaluations, calls,
                   raw_text, loaded>>

\* data = json.loads(cleaned)
LoadJson ==
    /\ pc = "json_loads"
    /\ pc' = "__end__"
    /\ loaded' = json_loads(cleaned_text.v)
    /\ UNCHANGED <<error, config, state, tasks, source_summaries, evaluations, calls,
                   raw_text, cleaned_text>>

ExtractNext == CleanResponse \/ LoadJson

ExtractSpec == ExtractInit /\ [][ExtractNext]_vars

(***************************************************************************)
(* The report writer alone, on the states the evaluator hands over         *)
(* (satisfied, or the iteration budget used up) and on a state without a   *)
(* researcher, which the node reads with state.get and guards against.     *)
(***************************************************************************)
ReportQuestions ==
    {<<>>, <<PyStr(<<"Question one">>)>>, PlaceholderQuestions, <<PyNone>>}
ReportResearchers(budget) ==
    {r \in {ResearcherState(PyStr(<<"wars">>), q, i, s) :
                q \in ReportQuestions, i \in 1..MaxIterationsBound, s \in BOOLEAN} :
        r.satisfied \/ r.iteration >= budget}

ReportInit ==
    /\ pc = "report"
    /\ error = NoError
    /\ MAX_ITERATIONS \in 1..MaxIterationsBound
    /\ MAX_SEARCH_RESULTS = 1
    /\ messages \in Histories \ {<<>>}
    /\ researcher \in {Absent} \cup ReportResearchers(MAX_ITERATIONS)
    /\ research_plan = ResearchPlan(get_buffer_string(<<UserTurn>>), PyList(<<>>))
    /\ search_results = PyList(<<>>)
    /\ current_summary \in {Absent, PyStr(<<>>), PyStr(SynthesisText)}
    /\ final_report = Absent
    /\ tasks = <<>>
    /\ source_summaries = <<>>
    /\ evaluations = 1
    /\ calls = [NoCalls("evaluator") EXCEPT !.llm = 1]
    /\ NoExtraction

ReportNext == report_generation_node

ReportSpec == ReportInit /\ [][ReportNext]_vars

(***************************************************************************)
(* Properties                                                              *)
(***************************************************************************)
\* The researcher's iteration counter; 0 before the first plan
Iteration == IF Missing(researcher) THEN 0 ELSE researcher.iteration
\* The stored satisfied flag
Satisfied == ~Missing(researcher) /\ researcher.satisfied
\* The history holds a prior assistant turn
HasAssistantTurn == \E i \in 1..Len(messages) : messages[i].type = "ai"
\* The node that has just run made one completion request and got this text
Replied(node, texts) ==
    calls.node = node /\ calls.llm = 1 /\ ~calls.reply.raised /\ calls.reply.content \in texts

\* C1: for MAX_ITERATIONS >= 1 and whatever the evaluator's completions are,
\* a session that entered PLAN reaches REPORT after at most MAX_ITERATIONS
\* runs of the evaluator: it never runs the evaluator more often than that,
\* after the MAX_ITERATIONS-th run it is in REPORT or beyond, and it never
\* stops in the evaluator.
C1_ReportWithinBudget ==
    MAX_ITERATIONS >= 1 =>
        /\ evaluations <= MAX_ITERATIONS
        /\ (evaluations = MAX_ITERATIONS => pc \in {"report", "__end__"})
        /\ ~(pc = "raised" /\ error.node = "evaluator")

\* C2: for MAX_ITERATIONS >= 1 the iteration counter stays within
\* 0..MAX_ITERATIONS in every reachable state; every run of the evaluator
\* raises it by exactly 1, and no other step changes it.
C2_IterationMonotonic ==
    /\ [](MAX_ITERATIONS >= 1 => (0 <= Iteration /\ Iteration <= MAX_ITERATIONS))
    /\ [][MAX_ITERATIONS >= 1 =>
              Iteration' = IF pc = "evaluator" THEN Iteration + 1 ELSE Iteration]_vars

\* C3: once satisfied is true it stays true, and the only step taken from
\* then on is the report's: no plan, query list, source list or synthesis is
\* written again.
C3_SatisfiedSticky ==
    [][Satisfied =>
          /\ Satisfied'
          /\ calls'.node = "report"
          /\ pc' = "__end__"
          /\ UNCHANGED <<researcher, research_plan, search_results, current_summary>>]_vars
C3_Witness ==
    /\ pc = "__end__" /\ Satisfied /\ calls.node = "report" /\ ~Missing(final_report)
    /\ Iteration < MAX_ITERATIONS

\* C4: with a prior assistant turn in the history the clarifier goes to the
\* researcher without asking the model and without appending a message.
C4_ClarifyOnce ==
    [][(pc = "clarifier" /\ HasAssistantTurn) =>
          /\ pc' = "researcher"
          /\ calls'.llm = 0
          /\ UNCHANGED state]_vars
C4_Witness ==
    pc = "researcher" /\ calls.node = "clarifier" /\ HasAssistantTurn /\ calls.llm = 0

\* The decisions that ask for clarification
ClarifyAsks == Variants(ClarifyAsk) \cup {ClarifyAskBare}

\* C5: with no prior assistant turn, a decision that asks for clarification
\* ends the session at once: the question (empty when the decision gives
\* none) is the only message appended, nothing else of the state is written,
\* no report is set, and no step is ever taken after the end.
C5_ClarifyAsksAndEnds ==
    [][/\ pc # "__end__"
       /\ (pc = "clarifier" /\ ~HasAssistantTurn
              /\ calls'.llm = 1 /\ ~calls'.reply.raised
              /\ calls'.reply.content \in ClarifyAsks)
          => /\ pc' = "__end__"
             /\ messages' =
                    Append(messages,
                           AIMessage(IF calls'.reply.content = ClarifyAskBare
                                     THEN <<>> ELSE <<"Which region?">>))
             /\ final_report' = Absent
             /\ UNCHANGED <<researcher, research_plan, search_results, current_summary,
                            evaluations>>]_vars
C5_Witness ==
    /\ pc = "__end__" /\ Replied("clarifier", Variants(ClarifyAsk))
    /\ messages[Len(messages)] = AIMessage(<<"Which region?">>)
    /\ Missing(final_report) /\ Missing(researcher)

\* C6: a run of the evaluator goes to the report exactly when the model's
\* verdict is satisfied or iteration + 1 >= MAX_ITERATIONS, and back to the
\* researcher exactly when neither holds; at the ceiling the stored flag is
\* true whatever the verdict was.
C6_EvaluatorRouting ==
    [][(pc = "evaluator" /\ calls'.llm = 1 /\ MAX_ITERATIONS >= 1) =>
          LET ceiling == Iteration + 1 >= MAX_ITERATIONS
              verdict == calls'.verdict.satisfied
          IN  /\ (pc' = "report") = (verdict \/ ceiling)
              /\ (pc' = "researcher") = (~verdict /\ ~ceiling)
              /\ (ceiling => Satisfied')]_vars

\* The completion request failed, or its text yields no verdict object
EvalUnusable(reply) ==
    reply.raised \/ reply.content \in {EvalNoJson, EvalBadBraces, EvalOtherShape}

\* C7: when the evaluator's completion request fails, or its text holds no
\* JSON, broken JSON or JSON that is no object, the evaluator does not raise
\* and works with satisfied = false, unanswered = all research questions and
\* next_directions = []; with budget left it goes back to the researcher.
C7_EvaluatorFailsOpen ==
    [][(pc = "evaluator" /\ calls'.llm = 1 /\ EvalUnusable(calls'.reply)) =>
          /\ pc' # "raised"
          /\ calls'.verdict =
                 [satisfied |-> FALSE,
                  unanswered |-> PyList(researcher.research_questions),
                  next_directions |-> PyList(<<>>)]
          /\ (Iteration + 1 < MAX_ITERATIONS => pc' = "researcher" /\ ~Satisfied')]_vars
C7_Witness ==
    /\ pc = "researcher" /\ calls.node = "evaluator" /\ calls.llm = 1
    /\ calls.reply.raised /\ ~Satisfied /\ Iteration = 1

\* C8: whatever text the planning completion returns, the researcher does
\* not abort: it commits a focus and a question list and goes on to the
\* query generator.
C8_PlanNeverAborts ==
    (MAX_ITERATIONS >= 1 /\ Replied("researcher", PlanTexts))
        => /\ pc = "query_generator"
           /\ ~Missing(researcher)
           /\ ~Missing(research_plan)

\* C9: a query-generation completion that cannot be parsed into a query list
\* does not end the session: the searcher runs next, with an empty query list.
C9_UnparsedQueriesReachSearch ==
    (MAX_ITERATIONS >= 1
        /\ Replied("query_generator", {QueriesNoJson, QueriesBadBrackets, QueriesOtherShape}))
        => /\ pc = "web_searcher"
           /\ ~Truthy(research_plan.search_queries)

\* C10: a session that has entered PLAN never ends abnormally: whatever
\* completion request fails or returns unusable text in planning, query
\* generation, evaluation or report generation, the session does not stop
\* there with an exception, and it ends with a final report set.
C10_NoAbnormalEnd ==
    (MAX_ITERATIONS >= 1 /\ calls.llm >= 1
        /\ calls.node \in {"researcher", "query_generator", "evaluator", "report"})
        => /\ pc # "raised"
           /\ (pc = "__end__" => ~Missing(final_report))

\* part occurs in text as a contiguous piece
IsPartOf(part, text) ==
    \E k \in 0..(Len(text) - Len(part)) : SubSeq(text, k + 1, k + Len(part)) = part
\* The sources handed to the summarizer
Sources == SourcesOf(search_results)
\* What a task returns for a source when its request succeeds, and when
\* anything in it fails
DigestOf(source)      == source.title \o <<"\n">> \o DigestText \o <<"\n">>
PlaceholderOf(source) == source.title \o <<" (Error: could not summarize)", "\n">>
\* The step in which the summarizer leaves its MAP phase
LeavesMap == pc = "summarizer_map" /\ pc' # "summarizer_map"

\* C11: with N sources of which any k tasks fail, in whatever order the
\* tasks complete, the summarizer leaves the MAP phase by issuing the
\* synthesis request, and the combined input of that request contains the
\* digest of every source whose task succeeded.
C11_SurvivorsReachSynthesis ==
    [][LeavesMap =>
          /\ pc' = "evaluator"
          /\ calls'.node = "summarizer"
          /\ calls'.llm = Len(Sources) + 1
          /\ \A i \in 1..Len(Sources) :
                 tasks[i].result = DigestOf(Sources[i])
                     => IsPartOf(DigestOf(Sources[i]), calls'.combined)]_vars
C11_Witness ==
    /\ pc = "evaluator" /\ calls.node = "summarizer" /\ Len(Sources) = 3
    /\ IsPartOf(DigestOf(Sources[3]) \o <<"\n", "\n">> \o DigestOf(Sources[1]),
                calls.combined)
    /\ ~IsPartOf(DigestOf(Sources[2]), calls.combined)

\* The summarizer is at work
InSummarizer == pc \in {"summarizer", "summarizer_map"}

\* C12: the summarizer never raises: whatever fails inside it (a MAP task,
\* the synthesis call, a missing researcher state), the step that ends it
\* hands over to the evaluator, with the synthesis text as the summary, or
\* the empty text when the synthesis call or the reading of the state failed.
C12_SummarizerNeverRaises ==
    /\ [](pc # "raised" /\ error = NoError)
    /\ [][(InSummarizer /\ ~InSummarizer') =>
             /\ pc' = "evaluator"
             /\ IsStr(current_summary')
             /\ (Missing(researcher) \/ calls'.reply.raised)
                    => current_summary' = PyStr(<<>>)
             /\ (~Missing(researcher) /\ ~calls'.reply.raised)
                    => current_summary' = PyStr(calls'.reply.content)]_vars
C12_Witness ==
    /\ pc = "evaluator" /\ calls.node = "summarizer"
    /\ Len(Sources) = 2
    /\ IsPartOf(PlaceholderOf(Sources[1]), calls.combined)
    /\ calls.reply.raised
    /\ current_summary = PyStr(<<>>)

\* Task i returns in this step
Returns(i) == Running(i) /\ Len(tasks') = Len(tasks) /\ tasks'[i].status = "done"
\* Task i has returned a result of its own source
ReturnedOwn(i) ==
    /\ Done(i)
    /\ tasks[i].result \in {DigestOf(Sources[i]), PlaceholderOf(Sources[i])}

\* C13: a MAP task that fails returns the one-line placeholder
\* "<title> (Error: could not summarize)" (a line, ended by a newline) in
\* place of a digest.  Its return leaves every sibling task as it was and
\* raises nothing to the summarizer, and when the MAP phase ends every
\* submitted task has run to completion and returned the result of its own
\* source.
C13_FailureStaysInItsTask ==
    /\ [][\A i \in 1..Len(tasks) :
              Returns(i) =>
                  /\ tasks'[i].result \in {DigestOf(Sources[i]), PlaceholderOf(Sources[i])}
                  /\ \A j \in 1..Len(tasks) : j # i => tasks'[j] = tasks[j]
                  /\ pc' = "summarizer_map" /\ error' = NoError
                  /\ source_summaries' = source_summaries]_vars
    /\ [][LeavesMap =>
              /\ Len(tasks) = Len(Sources)
              /\ \A i \in 1..Len(tasks) : ReturnedOwn(i)]_vars
C13_Witness ==
    /\ pc = "summarizer_map" /\ Len(tasks) = 3
    /\ Done(1) /\ tasks[1].result = PlaceholderOf(Sources[1])
    /\ Done(2) /\ tasks[2].result = DigestOf(Sources[2])
    /\ Running(3)

\* The step in which the synthesis request is issued
IssuesSynthesis == calls' # calls /\ calls'.node = "summarizer" /\ calls'.llm >= 1

\* C14: in every interleaving of the MAP tasks the synthesis request is
\* issued only when every submitted task has finished or failed, and at most
\* once per pass: the step that issues it ends the summarizer's pass, and no
\* step of the summarizer is possible after it.
C14_ReduceAfterMap ==
    /\ [][IssuesSynthesis =>
              /\ pc = "summarizer_map"
              /\ Len(tasks) = Len(Sources)
              /\ \A i \in 1..Len(tasks) : Done(i)
              /\ pc' = "evaluator" /\ tasks' = <<>>]_vars
    /\ [](pc = "evaluator" => ~ENABLED MapNext)
C14_Witness ==
    /\ pc = "evaluator" /\ calls.node = "summarizer"
    /\ Len(Sources) = 3 /\ calls.llm = 4
    /\ IsPartOf(PlaceholderOf(Sources[2]) \o <<"\n", "\n">> \o DigestOf(Sources[3]),
                calls.combined)

\* Task i starts executing in this step
Starts(i) == Queued(i) /\ Len(tasks') = Len(tasks) /\ tasks'[i].status = "running"

\* C15: at every moment of the MAP phase at most 5 tasks are executing,
\* whatever the number of sources: a task starts only while fewer than 5 are
\* executing, so a task beyond the fifth waits until a worker is free.
C15_AtMostFiveRunning ==
    /\ [](RunningCount <= 5)
    /\ [][\A i \in 1..Len(tasks) : Starts(i) => RunningCount < 5]_vars
C15_Witness ==
    /\ pc = "summarizer_map" /\ RunningCount = 5
    /\ \E i \in 1..Len(tasks) : Queued(i)

\* How far the MAP phase has come: a task counts once when started, once
\* when it has returned and once when its result is collected
Progress ==
    Cardinality({i \in 1..Len(tasks) : ~Queued(i)})
        + Cardinality({i \in 1..Len(tasks) : Done(i)})
        + Cardinality({i \in 1..Len(tasks) : tasks[i].collected})

\* C16: for any number of sources, more than the 5 workers included, when
\* every summarization call returns or fails the MAP phase completes and the
\* summarizer goes on to REDUCE and to the evaluator.  The summarizer is
\* never stuck (some step is possible while it is at work), every step of
\* the MAP phase advances exactly one task, so the phase ends after three
\* steps per task, and the step that ends it issues the synthesis request
\* with every task collected and hands over to the evaluator.
C16_MapPhaseCompletes ==
    /\ [](InSummarizer => ENABLED PoolNext)
    /\ [](pc = "summarizer_map" => Progress <= 3 * Len(tasks))
    /\ [][(pc = "summarizer_map" /\ pc' = "summarizer_map")
              => Progress' = Progress + 1]_vars
    /\ [][LeavesMap =>
              /\ Progress = 3 * Len(Sources)
              /\ IssuesSynthesis
              /\ pc' = "evaluator"]_vars
C16_Witness ==
    /\ pc = "evaluator" /\ calls.node = "summarizer"
    /\ Len(Sources) = 6 /\ calls.llm = 7
    /\ \A i \in 1..6 : IsPartOf(DigestOf(Sources[i]), calls.combined)

\* The pass under way is one whose plan has an empty query list, and the
\* searcher has run in it
EmptyQueryPass ==
    /\ MAX_ITERATIONS >= 1
    /\ ~Missing(research_plan)
    /\ research_plan.search_queries = PyList(<<>>)
    /\ calls.node \in {"web_searcher", "summarizer", "evaluator"}

\* C17: with a plan whose query list is empty the searcher makes no search
\* call and produces an empty source list, and the pass goes on without
\* raising: the summarizer hands over to the evaluator and the evaluator
\* hands over to the report (or, with budget left, to the next pass).
C17_EmptyPlanReachesReport ==
    EmptyQueryPass =>
        /\ pc # "raised"
        /\ search_results = PyList(<<>>)
        /\ calls.node = "web_searcher"
               => calls.search = 0 /\ pc \in {"summarizer", "summarizer_map"}
        /\ calls.node = "summarizer" => pc = "evaluator"
        /\ calls.node = "evaluator" => pc \in {"report", "researcher"}

\* The queries the searcher has handed to the search tool, in call order
QueriesSearched(searches) == [i \in 1..Len(searches) |-> searches[i].query]
\* The provider answered query number q with a first result that converts
FindsSource(searches, q) ==
    /\ ~searches[q].answer.raised
    /\ searches[q].answer.type \in {"dict", "list"}
    /\ Len(searches[q].answer.results) >= 1
    /\ searches[q].answer.results[1] = "good"

\* C18: when the search for one query fails the searcher goes on: every
\* query of the plan is still handed to the search tool, in plan order, the
\* sources found for the other queries are kept, and the node hands over to
\* the summarizer.
C18_FailedSearchIsSkipped ==
    [][(pc = "web_searcher"
            /\ \E q \in 1..Len(calls'.searches) : calls'.searches[q].answer.raised) =>
          /\ pc' = "summarizer" /\ error' = NoError
          /\ QueriesSearched(calls'.searches) = Items(research_plan.search_queries)
          /\ calls'.search = Len(Items(research_plan.search_queries))
          /\ \A q \in 1..Len(calls'.searches) :
                 FindsSource(calls'.searches, q)
                     => \E k \in 1..Len(SourcesOf(search_results')) :
                            SourcesOf(search_results')[k] = RawSource(q, 1)]_vars
C18_Witness ==
    /\ pc = "summarizer" /\ calls.node = "web_searcher"
    /\ calls.search = 2
    /\ calls.searches[1].answer.raised
    /\ FindsSource(calls.searches, 2)
    /\ SourcesOf(search_results) = <<RawSource(2, 1)>>

\* The text is object, embedded in some prose and fences
Embeds(text, object) ==
    \E shape \in EmbedShapes, before \in TextsBefore, after \in TextsAfter :
        text = Embed(shape, before, object, after)

\* C19: for a valid JSON object embedded in whatever surrounding text and
\* code fences, surrounding text with "[", "]", "{" or "}" in it included,
\* the extractor (clean_json_response, then json.loads) returns exactly
\* that object.
C19_EmbeddedObjectIsRecovered ==
    \A object \in EmbeddedObjects :
        (pc = "__end__" /\ Embeds(raw_text, object)) => loaded = json_loads(object)

\* The text has no "{" and no "[" in it
MarkerFree(text) == \A i \in 1..Len(text) : text[i] \notin {"{", "["}
\* A text that begins with a fence, without its first line and without its
\* last line when that holds nothing but a fence
WithoutFenceLines(text) ==
    LET i == Find(text, "\n") IN
    IF i = -1 THEN <<>>
    ELSE LET rest == SubSeq(text, i + 2, Len(text))
             j    == RFind(rest, "\n")
             last == IF j = -1 THEN rest ELSE SubSeq(rest, j + 2, Len(rest))
         IN  IF Strip(last) # <<Fence>> THEN rest
             ELSE IF j = -1 THEN <<>>
             ELSE SubSeq(rest, 1, j)

\* C20 (as the code has it): for a text with no "{" and no "[" the cleaning
\* step returns the text without its leading and trailing white space,
\* unless the trimmed text begins with a code fence: then its first line is
\* removed whole, its last line is removed when that holds nothing but a
\* fence, and what is left is returned without its leading and trailing
\* white space.
C20_MarkerFreeTextIsTrimmedAndUnfenced ==
    (pc # "clean_json_response" /\ MarkerFree(raw_text)) =>
        cleaned_text = PyStr(IF StartsWith(Strip(raw_text), Fence)
                             THEN Strip(WithoutFenceLines(Strip(raw_text)))
                             ELSE Strip(raw_text))
C20_Witness ==
    /\ pc = "json_loads"
    /\ raw_text = <<" ", Fence, "json", "\n", "hello", "\n", " ", "world", "\n", Fence, "\n">>
    /\ cleaned_text = PyStr(<<"hello", "\n", " ", "world">>)

\* C20 (as stated): for a text with no "{" and no "[" the cleaning step
\* returns the text with only its leading and trailing white space removed,
\* also when the text begins with a code fence.
C20_MarkerFreeTextIsOnlyTrimmed ==
    (pc # "clean_json_response" /\ MarkerFree(raw_text)) =>
        cleaned_text = PyStr(Strip(raw_text))

\* The session was started with no conversation turn: the pipeline itself
\* appends assistant turns only
StartedWithNoTurns == \A i \in 1..Len(messages) : messages[i].type # "human"

\* C21: a session started with no conversation turns fails before any
\* stage runs: no node has run, no completion was requested, and there is
\* neither a clarifying question nor a report.
C21_NoTurnsFailsBeforeAnyStage ==
    StartedWithNoTurns =>
        /\ calls.node = "" /\ calls.llm = 0
        /\ pc \in {"initialize", "raised"}
        /\ messages = <<>>
        /\ final_report = Absent

\* The session ended in the clarifier, with its question as the last turn
EndedWithQuestion ==
    /\ calls.node = "clarifier" /\ calls.llm = 1
    /\ messages # <<>> /\ messages[Len(messages)].type = "ai"
\* The session has written a final report
HasReport == final_report # Absent

\* C22: the report stage runs at most once in a session (no report is
\* written before it runs) and is followed by the end only, after which no
\* step is taken; a session that has reached the end has produced a
\* clarifying question or a final report, not both and not neither.
C22_QuestionOrReport ==
    /\ [][pc = "report" =>
              /\ ~HasReport
              /\ pc' = "__end__"
              /\ HasReport' /\ IsStr(final_report')]_vars
    /\ [](HasReport => pc = "__end__" /\ calls.node = "report")
    /\ [](pc = "__end__" => ~ENABLED Next)
    /\ [](pc = "__end__" => (EndedWithQuestion # HasReport))
C22_Witness ==
    /\ pc = "__end__" /\ calls.node = "report" /\ calls.reply.raised
    /\ ~EndedWithQuestion
    /\ final_report = PyStr(ErrorReport("model call failed"))

\* The order of the stages: from each stage, the stages that may follow it.
\* "summarizer_map" is the MAP phase inside SUMMARIZE.
StageOrder ==
    {<<"initialize", "clarifier">>, <<"clarifier", "__end__">>,
     <<"clarifier", "researcher">>, <<"researcher", "query_generator">>,
     <<"query_generator", "web_searcher">>, <<"web_searcher", "summarizer">>,
     <<"summarizer", "summarizer_map">>, <<"summarizer_map", "summarizer_map">>,
     <<"summarizer", "evaluator">>, <<"summarizer_map", "evaluator">>,
     <<"evaluator", "researcher">>, <<"evaluator", "report">>,
     <<"report", "__end__">>}

\* C23: every execution runs INIT, CLARIFY, and then either ends or runs
\* PLAN, GENERATE_QUERIES, SEARCH, SUMMARIZE, EVALUATE in that order, once
\* or several times, and then REPORT and the end: every step leads from a
\* stage to the stage that follows it in this order (a clarifier that
\* cannot decide is the one stage that may end the execution with its
\* error), no stage is skipped, and only EVALUATE leads backwards.
C23_StageOrder ==
    [][(MAX_ITERATIONS >= 1 /\ messages # <<>>) =>
          \/ <<pc, pc'>> \in StageOrder
          \/ pc = "clarifier" /\ pc' = "raised"]_vars

\* A task is submitted and has not returned yet
InFlight == \E i \in 1..Len(tasks) : ~Done(i)

\* C24: no data is written by two threads.  A step of a MAP task (its
\* start, its return) writes that task's own future only: the other
\* futures, the list of summaries, the research state and the orchestrator's
\* position stay as they are.  The list of summaries and the research state
\* are written by steps of the orchestrator, which change no future's
\* status or result.  While a task is in flight the orchestrator is inside
\* the MAP phase, and it leaves SUMMARIZE for the next stage only when none
\* is.
C24_NoSharedWrites ==
    /\ [][\A i \in 1..Len(tasks) :
              (Starts(i) \/ Returns(i)) =>
                  /\ \A j \in 1..Len(tasks) : j # i => tasks'[j] = tasks[j]
                  /\ tasks'[i].collected = tasks[i].collected
                  /\ source_summaries' = source_summaries
                  /\ state' = state /\ pc' = pc]_vars
    /\ [][(source_summaries' # source_summaries \/ state' # state) =>
              \A i \in 1..Len(tasks) :
                  Len(tasks') = Len(tasks) =>
                      /\ tasks'[i].status = tasks[i].status
                      /\ tasks'[i].result = tasks[i].result]_vars
    /\ [](InFlight => pc = "summarizer_map")
    /\ [][(InSummarizer /\ ~InSummarizer') => ~InFlight /\ tasks' = <<>>]_vars
C24_Witness ==
    /\ pc = "summarizer_map"
    /\ RunningCount >= 2
    /\ Len(source_summaries) >= 1
    /\ \E i \in 1..Len(tasks) : Done(i) /\ ~tasks[i].collected

\* A turn of the conversation the session was started with
IsConversationTurn(m) == m \in {UserTurn, AssistantTurn}
\* The brief of the first pass: the conversation the session was started
\* with, without the messages the pipeline has appended since
FirstBrief == get_buffer_string(SelectSeq(messages, IsConversationTurn))

\* C25: the research brief is created once in a session and stays as it
\* is: the brief that PLAN uses (and stores in the plan) in every pass is
\* the brief of the first pass, whatever messages the pipeline has appended
\* in between.
C25_BriefIsImmutable ==
    ~Missing(research_plan) => research_plan.original_query = FirstBrief

\* The pass has found no source
NoSources == Sources = <<>>

\* C26: when the source list is empty, no MAP task is submitted, the
\* synthesis request is still issued exactly once, over an empty combined
\* input, and the summarizer hands over to the evaluator without failing.
C26_EmptySourceListStillSynthesizes ==
    /\ [][(pc = "summarizer" /\ NoSources) =>
              /\ pc' = "summarizer_map" /\ tasks' = <<>>
              /\ calls' = calls]_vars
    /\ [][(pc = "summarizer_map" /\ NoSources) =>
              /\ tasks = <<>>
              /\ pc' = "evaluator" /\ error' = NoError
              /\ calls'.node = "summarizer" /\ calls'.llm = 1
              /\ calls'.combined = <<>>]_vars
    /\ []((InSummarizer /\ NoSources) => ENABLED Next)
C26_Witness ==
    /\ pc = "evaluator" /\ calls.node = "summarizer" /\ NoSources
    /\ calls.llm = 1 /\ calls.combined = <<>>
    /\ current_summary = PyStr(SynthesisText)

\* The extractor finds a JSON object in the text: directly, or in the slice
\* from the first "{" to the last "}"
HasJsonObject(text) ==
    LET cleaned == clean_json_response(text)
        direct  == json_loads(cleaned)
        braces  == regex_braces(cleaned)
    IN  \/ direct.ok /\ IsDict(direct.val)
        \/ /\ braces.found
           /\ json_loads(braces.group).ok
           /\ IsDict(json_loads(braces.group).val)
\* The planning completions without a JSON object
ObjectFreePlanTexts == {text \in PlanTexts : ~HasJsonObject(text)}
\* The focus and the questions of the degraded default
DefaultFocus == PyStr(Prefix(research_plan.original_query, FocusLimit))

\* C27: when the planning completion holds no extractable JSON object, the
\* researcher commits the first 200 characters of the brief (the whole brief
\* when it is shorter) as the focus and the 3 fixed placeholder questions as
\* the question list.
C27_ObjectFreePlanGetsDefault ==
    (MAX_ITERATIONS >= 1 /\ Replied("researcher", ObjectFreePlanTexts))
        => /\ pc = "query_generator"
           /\ ~Missing(researcher)
           /\ researcher.focus = DefaultFocus
           /\ researcher.research_questions = PlaceholderQuestions

\* The task of source i failed: it returned the placeholder
TaskFailed(i) == tasks[i].result = PlaceholderOf(Sources[i])

\* C28: a source whose summarization task failed is left out of the reduce
\* step: the combined input of the synthesis request holds an entry for each
\* source whose task succeeded, and nothing (neither its title nor a
\* placeholder) for a source whose task failed.
C28_FailedSourceIsExcluded ==
    [][LeavesMap =>
          \A i \in 1..Len(Sources) :
              IF TaskFailed(i)
              THEN /\ ~IsPartOf(Sources[i].title, calls'.combined)
                   /\ ~IsPartOf(PlaceholderOf(Sources[i]), calls'.combined)
              ELSE IsPartOf(DigestOf(Sources[i]), calls'.combined)]_vars

\* The search of a query failed: in the provider call, or while one of its
\* results was converted
QueryFailed(answer) ==
    \/ answer.raised
    \/ \E r \in 1..Len(ResultsList(answer)) : ResultsList(answer)[r] = "bad"
\* All the results of query number q, in the provider's order
AllResults(answer, q) == [r \in 1..Len(ResultsList(answer)) |-> RawSource(q, r)]
\* The results of the queries that did not fail, in query order
RECURSIVE ResultsOfSucceeded(_, _)
ResultsOfSucceeded(searches, q) ==
    IF q > Len(searches) THEN <<>>
    ELSE (IF QueryFailed(searches[q].answer) THEN <<>>
          ELSE AllResults(searches[q].answer, q))
             \o ResultsOfSucceeded(searches, q + 1)

\* C29: after the searcher the source list is exactly the concatenation, in
\* the plan's query order and the provider's result order, of the results
\* of the queries that did not fail; a query that failed, in the provider
\* call or while one of its results was converted, contributes no source.
C29_OnlySucceededQueriesContribute ==
    [][pc = "web_searcher" =>
          /\ pc' = "summarizer"
          /\ SourcesOf(search_results') = ResultsOfSucceeded(calls'.searches, 1)]_vars

\* The query generator completes its pass in this step, having parsed the
\* completion of that pass
GeneratesQueries ==
    /\ pc = "query_generator" /\ pc' = "web_searcher"
    /\ calls'.node = "query_generator" /\ calls'.llm = 1
\* The history reports a pass that generated this query list
Generated(search_queries) ==
    \E i \in 1..Len(messages) : messages[i] = AIMessage(QueriesMessage(search_queries))

\* C30: after the query generator, in whatever pass, the plan's query list
\* is exactly the list parsed from the completion of that pass: queries of
\* earlier passes are neither kept nor merged into it.
C30_QueriesAreReplaced ==
    [][GeneratesQueries =>
          /\ ParseQueries(calls'.reply.content).ok
          /\ research_plan'.search_queries
                 = ParseQueries(calls'.reply.content).search_queries
          /\ (calls'.reply.content \in Variants(QueriesOne)
                 => research_plan'.search_queries = PyList(<<PyStr(<<"query A">>)>>))
          /\ (calls'.reply.content = QueriesNone
                 => research_plan'.search_queries = PyList(<<>>))]_vars
C30_Witness ==
    /\ pc = "web_searcher" /\ Replied("query_generator", {QueriesNone})
    /\ Iteration = 1
    /\ Generated(PyList(<<PyStr(<<"query A">>)>>))
    /\ research_plan.search_queries = PyList(<<>>)

\* The provider's answers of the searches of a pass
AnswersOf(searches) == [q \in 1..Len(searches) |-> searches[q].answer]
\* What the searcher that has just run wrote: the sources its searches
\* gave, the empty list when it made no search
WrittenBySearch == PyList(CollectSources(AnswersOf(calls.searches), 1))
\* What the summarizer that has just run wrote: the synthesis text, the
\* empty text when the synthesis request failed or was not made
WrittenBySummarize ==
    IF calls.llm >= 1 /\ ~calls.reply.raised
    THEN PyStr(calls.reply.content) ELSE PyStr(<<>>)
\* The history holds the synthesis of an earlier pass over n sources
Synthesized(n) ==
    \E i \in 1..Len(messages) :
        messages[i] = AIMessage(IterationSummary(n, SynthesisText))

\* C31: whenever the evaluator or the report writer runs, the stored source
\* list and the stored synthesis are the ones the searcher and the
\* summarizer of the current pass wrote (empty when that stage failed): the
\* searcher and the summarizer overwrite them in every pass, on failure
\* too, and nothing changes them between that write and the report.
C31_NoStaleSourcesOrSynthesis ==
    /\ [](InSummarizer =>
              /\ calls.node = "web_searcher"
              /\ search_results = WrittenBySearch)
    /\ [](pc = "evaluator" =>
              /\ calls.node = "summarizer"
              /\ current_summary = WrittenBySummarize)
    /\ [](pc = "report" => calls.node = "evaluator")
    /\ [][(InSummarizer \/ pc = "evaluator" \/ pc = "report")
              => search_results' = search_results]_vars
    /\ [][(pc = "evaluator" \/ pc = "report")
              => current_summary' = current_summary]_vars
C31_Witness ==
    /\ pc = "evaluator" /\ Iteration = 1
    /\ Synthesized(1)
    /\ calls.node = "summarizer" /\ calls.reply.raised
    /\ search_results = PyList(<<>>)
    /\ current_summary = PyStr(<<>>)

\* The clarification completions that are no clarification decision: no
\* JSON, braces around text that is no JSON, JSON of another shape, an
\* object without the need_clarification field
UnparsedClarifyTexts ==
    {ClarifyNoJson, ClarifyBadBraces, ClarifyOtherShape, ClarifyNoField}

\* C32: on the first pass (no prior assistant turn), a clarification
\* completion that cannot be parsed into a decision makes the clarifier
\* raise to the caller of the session: no default decision is applied, no
\* question is added to the history, and the researcher is not entered.
C32_ClarifyParseErrorPropagates ==
    Replied("clarifier", UnparsedClarifyTexts)
        => /\ pc = "raised"
           /\ error = [node |-> "clarifier", exc |-> "parse error"]
           /\ ~HasAssistantTurn
           /\ Missing(researcher) /\ Missing(research_plan)
           /\ final_report = Absent
C32_Witness ==
    /\ Replied("clarifier", {ClarifyNoField})
    /\ pc = "raised" /\ error.node = "clarifier"
    /\ messages = <<UserTurn>>

\* The text of a report that describes an error
DescribesError(report) ==
    /\ IsStr(report)
    /\ Len(report.v) = 4
    /\ SubSeq(report.v, 1, 3) = <<"Error generating report", ":", " ">>

\* C33: the report writer never raises.  When its model call fails it still
\* ends the session, with a final report that describes the error; when the
\* researcher state is missing the final report is the fixed text "Unable
\* to generate report - no researcher state."; any other failure inside it
\* ends the same way as a failed call.
C33_ReportNeverRaises ==
    /\ [][pc = "report" =>
              /\ pc' = "__end__" /\ error' = NoError
              /\ IsStr(final_report')
              /\ (Missing(researcher) =>
                      /\ calls'.llm = 0
                      /\ final_report' =
                             PyStr(<<"Unable to generate report - no researcher state.">>))
              /\ ((calls'.llm = 1 /\ calls'.reply.raised) =>
                      /\ DescribesError(final_report')
                      /\ final_report'.v[4] = "model call failed"
                      /\ messages' = messages)
              /\ ((~Missing(researcher) /\ calls'.llm = 0) =>
                      DescribesError(final_report'))]_vars
    /\ [](pc = "report" => ENABLED ReportNext)
C33_Witness ==
    /\ pc = "__end__" /\ calls.node = "report"
    /\ calls.llm = 1 /\ calls.reply.raised
    /\ researcher.research_questions = PlaceholderQuestions
    /\ current_summary = PyStr(SynthesisText)
    /\ DescribesError(final_report)

\* The researcher commits a plan in this step
CommitsPlan == pc = "researcher" /\ pc' = "query_generator"

\* C34: the researcher leaves the iteration counter as it is: the state it
\* commits carries the iteration of the state it found (0 in the first
\* pass; after a loop back the value the preceding evaluator wrote, which
\* is the number of evaluations so far, not 0), and its satisfied flag is
\* false.
C34_PlanKeepsIteration ==
    [][CommitsPlan =>
          /\ researcher'.iteration = Iteration
          /\ researcher'.iteration = evaluations
          /\ ~researcher'.satisfied
          /\ (calls.node = "evaluator" =>
                  /\ ~Missing(researcher)
                  /\ researcher.iteration >= 1
                  /\ researcher'.iteration = researcher.iteration)]_vars
C34_Witness ==
    /\ pc = "query_generator" /\ calls.node = "researcher"
    /\ evaluations = 1
    /\ researcher.iteration = 1 /\ ~researcher.satisfied

\* C35: the searcher never raises.  When the plan is missing, when the
\* search tool cannot be built, or when anything else fails outside the
\* loop over the queries, it made no search, commits an empty source list
\* and hands over to the summarizer.
C35_SearchNeverRaises ==
    /\ [][pc = "web_searcher" =>
              /\ pc' = "summarizer" /\ error' = NoError
              /\ IsList(search_results')
              /\ calls'.node = "web_searcher"
              /\ (Missing(research_plan) => calls'.search = 0)
              /\ ((~Missing(research_plan) /\ ~IsList(research_plan.search_queries))
                      => calls'.search = 0)
              /\ (calls'.search = 0 => search_results' = PyList(<<>>))]_vars
    /\ [](pc = "web_searcher" => ENABLED SearcherNext)
C35_Witness ==
    /\ pc = "summarizer" /\ calls.node = "web_searcher"
    /\ ~Missing(research_plan)
    /\ research_plan.search_queries = PyList(PlanQueries(2))
    /\ calls.search = 0
    /\ search_results = PyList(<<>>)

\* The most evaluations a session with this budget makes
EvaluationCeiling == IF MAX_ITERATIONS >= 1 THEN MAX_ITERATIONS ELSE 1

\* C36: for every configured MAX_ITERATIONS the evaluator runs at most
\* max(1, MAX_ITERATIONS) times.  With MAX_ITERATIONS at 0 or below, the
\* first evaluation is the last: whatever its verdict, the evaluator hands
\* over to the report writer, never back to the researcher, and the report
\* is written after exactly one evaluation, with iteration = 1, which is
\* greater than MAX_ITERATIONS.
C36_NonPositiveBudgetRunsOnePass ==
    /\ [](evaluations <= EvaluationCeiling)
    /\ []((MAX_ITERATIONS <= 0 /\ (pc = "report" \/ HasReport)) =>
              /\ evaluations = 1
              /\ Iteration = 1 /\ Iteration > MAX_ITERATIONS
              /\ Satisfied)
    /\ []((MAX_ITERATIONS <= 0 /\ pc # "report" /\ ~HasReport /\ pc # "raised")
              => evaluations = 0)
    /\ [][(MAX_ITERATIONS <= 0 /\ pc = "evaluator" /\ pc' # "raised")
              => pc' = "report"]_vars
C36_Witness ==
    /\ MAX_ITERATIONS = 0
    /\ pc = "report" /\ calls.node = "evaluator"
    /\ ~calls.reply.raised /\ ~calls.verdict.satisfied
    /\ evaluations = 1 /\ Iteration = 1 /\ Satisfied

\* C37: the cleaning step of the extractor is idempotent: cleaning a
\* cleaned text gives the cleaned text again, for every input, nested or
\* repeated code fences included.
C37_CleaningIsIdempotent ==
    IsStr(cleaned_text) => clean_json_response(cleaned_text.v) = cleaned_text.v

====
